---- MODULE Spec2Model ----
(***************************************************************************)
(* Model of the MooLite authoritative game server (src/server.js).         *)
(*                                                                         *)
(* Numbers.  The server computes with IEEE doubles.  The model keeps       *)
(* positions as whole world units and truncates a displacement to a whole  *)
(* unit; every threshold the server compares against (40, 50, 80, the      *)
(* world bounds) is an integer, and distances are compared by their        *)
(* squares, which is exact on whole units.  The JavaScript values          *)
(* undefined, a non-numeric string and NaN are kept as three distinct      *)
(* values outside the numeric range with JavaScript's rules for them.      *)
(***************************************************************************)
EXTENDS Integers, Sequences, FiniteSets, TLC

(* ------------------------------------------------------------------ *)
(* Program constants                                                   *)
(* ------------------------------------------------------------------ *)
WORLD == [W |-> 3000, H |-> 2000]
PLAYER_SPEED == 220
ACTION_RANGE == 80
HIT_RADIUS == 40
HARVEST_RADIUS == 50
HIT_DAMAGE == 20
HARVEST_DAMAGE == 15
RESPAWN_MS == 30000
TAP_STEP == 40
FULL_HP == 100
DROP_CAP == 5
DEFAULT_DT == 100
NAME_SLICE == 16
CHAT_SLICE == 200
INACTIVE_MS == 600000
RES_NODE_TYPES == <<"tree", "rock", "berry", "wood">>

(* ------------------------------------------------------------------ *)
(* Bounds of the model                                                 *)
(* ------------------------------------------------------------------ *)
MaxConns == 2        \* connections that may ever be opened
MaxPlayers == 2      \* players that may ever be created
NodeCount == 2       \* nodes seeded (the server seeds 80)
MaxBuildings == 1    \* structures that may ever be built
MaxSockets == 4      \* sockets one client may ever make
MaxTimber == 2       \* structures that may be built where both nodes bear wood
MaxIdles == 3        \* long advances of the clock
IdleMs == 300000     \* milliseconds of a long advance of the clock
LiveTicks == 4       \* advances of the clock where nodes live through two cycles
MaxMoves == 2        \* input / tapMove intents resolved in one run
MaxKills == 1        \* kills after which a player's clicks are not explored
MaxTicks == 2        \* clock advances in one run
CrowdMinHp == 80     \* a crowd's clicks are explored while every health is at least this
TickMs == 15000      \* milliseconds per clock advance
StartMs == 1000      \* Date.now() when the server starts

(* ------------------------------------------------------------------ *)
(* JavaScript values                                                   *)
(* ------------------------------------------------------------------ *)
Undefined == -(2^30)
NonNumeric == Undefined + 1
NaN == Undefined + 2
\* null, which is what JSON.stringify writes for NaN
Null == Undefined + 3

IsNum(v) == v \notin {Undefined, NonNumeric, NaN}
ToNumber(v) == IF IsNum(v) THEN v ELSE NaN
Truthy(v) == v \notin {Undefined, NaN, 0}
OrElse(v, d) == IF Truthy(v) THEN v ELSE d

Add(a, b) == IF IsNum(a) /\ IsNum(b) THEN a + b ELSE NaN
Sub(a, b) == IF IsNum(a) /\ IsNum(b) THEN a - b ELSE NaN

\* integer division truncating toward zero
TruncDiv(a, b) == IF a >= 0 THEN a \div b ELSE -((-a) \div b)

MathMin(a, b) == IF IsNum(a) /\ IsNum(b) THEN (IF a < b THEN a ELSE b) ELSE NaN
MathMax(a, b) == IF IsNum(a) /\ IsNum(b) THEN (IF a > b THEN a ELSE b) ELSE NaN

clamp(v, a, b) == MathMax(a, MathMin(b, v))

\* square of Math.hypot(dx, dy); NaN when either argument is not a number
Hypot2(dx, dy) == IF IsNum(dx) /\ IsNum(dy) THEN dx * dx + dy * dy ELSE NaN
\* Math.hypot(dx, dy) < r, Math.hypot(dx, dy) > r: false on NaN
HypotLess(dx, dy, r) == IsNum(Hypot2(dx, dy)) /\ Hypot2(dx, dy) < r * r
HypotGreater(dx, dy, r) == IsNum(Hypot2(dx, dy)) /\ Hypot2(dx, dy) > r * r

RECURSIVE Newton(_, _)
Newton(n, r) == LET s == (r + n \div r) \div 2 IN IF s >= r THEN r ELSE Newton(n, s)
\* floor of the square root
ISqrt(n) == IF n = 0 THEN 0 ELSE Newton(n, n)

(* ------------------------------------------------------------------ *)
(* Strings, kept as sequences of characters                            *)
(* ------------------------------------------------------------------ *)
\* s || d for strings: the empty string is falsy, and so is an absent field,
\* which is kept as the empty sequence
StrOr(s, d) == IF s = << >> THEN d ELSE s

\* s.replace(/</g,"&lt;").replace(/>/g,"&gt;"): every character replaced where
\* it stands, a long string by halves
RECURSIVE sanitize(_)
sanitize(s) ==
    IF s = << >> THEN << >>
    ELSE IF Len(s) = 1
      THEN (CASE s[1] = "<" -> <<"&", "l", "t", ";">>
              [] s[1] = ">" -> <<"&", "g", "t", ";">>
              [] OTHER -> <<s[1]>>)
    ELSE sanitize(SubSeq(s, 1, Len(s) \div 2)) \o sanitize(SubSeq(s, (Len(s) \div 2) + 1, Len(s)))

\* "Player" + n
PlayerN(n) == <<"P", "l", "a", "y", "e", "r", ToString(n)>>
\* "Player" + "p" + n
PlayerPN(n) == <<"P", "l", "a", "y", "e", "r", "p", ToString(n)>>
\* "p" + n
PN(n) == <<"p", ToString(n)>>
SystemName == <<"S", "y", "s", "t", "e", "m">>
JoinedText == <<" ", "j", "o", "i", "n", "e", "d">>

\* Slice that cuts nothing
SliceWhole(s, n) == s

\* s.slice(0, n)
Slice(s, n) == SubSeq(s, 1, IF Len(s) < n THEN Len(s) ELSE n)

\* the number v as JSON.stringify writes it
Json(v) == IF v = NaN THEN Null ELSE v

(* ------------------------------------------------------------------ *)
(* Inputs explored                                                     *)
(* ------------------------------------------------------------------ *)
Conns == 1..MaxConns
NodeIds == 1..NodeCount
Directions == {"up", "down", "left", "right"}

\* values Math.random()*WORLD.W, Math.random()*WORLD.H may take
SpawnPoints == {<<100, 0>>, <<141, 0>>}
\* seed position of node i
NodeSeedPos(i) == <<170 + 10 * i, 0>>
\* seed (hp, maxHp) of node i, each in 30..79
SeedHp(i) == IF i % 2 = 1 THEN <<30, 40>> ELSE <<40, 30>>
\* the seeds explored: seed s gives node i the type RES_NODE_TYPES[((i - 1 + s) % 4) + 1]
Seeds == {0, 2}
SeedType(i, s) == RES_NODE_TYPES[((i - 1 + s) % 4) + 1]
\* a seed that gives both nodes a type that yields wood
TimberSeeds == {3}
\* values Math.random().toString(36).slice(2,6) may take
Suffixes == <<"k3f9", "i">>
\* values (Math.random()-0.5)*80 may take, per axis pair
Jitters == {<<0, 0>>, <<-40, -40>>}
\* values 30 + Math.floor(Math.random()*50) may take in processRespawns
FallbackHps == {30, 79}
\* msg.dt of an input message
DtValues == {Undefined, 20000, NonNumeric}
\* msg.dt of an input message, the absent, zero, negative and default ones included
DtAny == DtValues \cup {0, -100, DEFAULT_DT}
\* msg.x, msg.y of a message that lacks them or carries text in their place
BadCoords == {<<Undefined, Undefined>>, <<NonNumeric, 0>>}
\* msg.type of the messages a connection without a player sends
IntentTypes == {"input", "chat", "place", "action", "setName", "ping"}
\* msg.name of a join message; the empty sequence is an absent or empty name
JoinNames == {<< >>, <<"B", "o", "b">>, <<"<", "b", ">">>}
\* msg.name of a setName message
NewNames == {<< >>, <<"A", "n", "n">>, [i \in 1..(NAME_SLICE + 1) |-> "x"]}
\* msg.name of a join message that is longer than a display name may become
LongJoinNames == {<< >>, [i \in 1..(NAME_SLICE + 2) |-> "x"]}
\* msg.text of a chat message: absent or empty, short with markup, and longer
\* than a chat text may be with markup near the cut
ChatTexts ==
    {<< >>, <<"<", "i", ">">>,
     [i \in 1..(CHAT_SLICE + 1) |-> IF i = CHAT_SLICE - 1 THEN "<" ELSE "x"]}
\* msg.name of a setName message with markup in it, and the absent one
MarkupNames == {<< >>, <<"<", "i", ">">>}
\* msg.kind of a place message
PlaceKinds == {"wall", "camp", "tower"}
\* msg.x of a place message, relative to the actor
PlaceOffsets == {0, 80, 81}
\* msg.x of a click, relative to a player clicked at
HitOffsets == {0, 40, 41}
\* msg.x of a click, relative to a node clicked at
NodeOffsets == {0, 50}
\* (msg.x, msg.y) of a tapMove, relative to the actor
TapOffsets == {<<0, 0>>, <<0, -30>>, <<60, 80>>}

(* ------------------------------------------------------------------ *)
(* State                                                               *)
(* ------------------------------------------------------------------ *)
VARIABLES
    players,       \* state.players: id -> player
    nodes,         \* state.nodes
    buildings,     \* state.buildings
    nextPlayerId,  \* next id createPlayer hands out
    conn,          \* per connection: its status and the pid of its closure
    now,           \* Date.now()
    nMoves,        \* movement intents resolved so far
    last,          \* the event handled last and how it was resolved
    before,        \* the registry as that event found it
    sent,          \* what that event sent: a sequence of [to, msg]
    client         \* one browser client: its sockets, its `ws`, its pending timeouts

vars == <<players, nodes, buildings, nextPlayerId, conn, now, nMoves, last, before, sent,
          client>>

NoEvent ==
    [op |-> "none", pid |-> 0, res |-> "", tgt |-> 0, kind |-> "", x |-> 0, y |-> 0,
     text |-> << >>]
Event(op, pid, res) == [NoEvent EXCEPT !.op = op, !.pid = pid, !.res = res]

\* the three collections of the registry
Registry == [players |-> players, nodes |-> nodes, buildings |-> buildings]

\* the event ev has been handled and has sent out
HandledSending(ev, out) ==
    last' = ev /\ before' = Registry /\ sent' = out /\ client' = client

\* the event ev has been handled and has sent nothing
Handled(ev) == HandledSending(ev, << >>)

\* snapshotState() of the collections ps, ns, bs
snapshotState(ps, ns, bs) ==
    [players   |-> [q \in DOMAIN ps |->
                      [id |-> q, x |-> ps[q].x, y |-> ps[q].y, hp |-> ps[q].hp,
                       name |-> ps[q].name, kills |-> ps[q].kills, inv |-> ps[q].inv]],
     nodes     |-> [i \in DOMAIN ns |->
                      [id |-> i, type |-> ns[i].type, x |-> ns[i].x, y |-> ns[i].y,
                       hp |-> ns[i].hp, maxHp |-> ns[i].maxHp, respawnAt |-> ns[i].respawnAt]],
     buildings |-> [k \in DOMAIN bs |->
                      [id |-> bs[k].id, kind |-> bs[k].kind, x |-> bs[k].x, y |-> bs[k].y,
                       owner |-> bs[k].owner]]]

\* JSON.stringify of a snapshot: a position that is NaN is written as null
Stringify(snap) ==
    [snap EXCEPT !.players = [q \in DOMAIN snap.players |->
                                [snap.players[q] EXCEPT !.x = Json(@), !.y = Json(@)]]]

\* OpenClients that leaves out the connections that have not joined
JoinedClients(cs) == {c \in DOMAIN cs : cs[c].st = "open" /\ cs[c].pid # 0}

\* the clients broadcast() sends to, for the connection table cs:
\* c.readyState === WebSocket.OPEN
OpenClients(cs) == {c \in DOMAIN cs : cs[c].st = "open"}

\* broadcast(obj) on the connection table cs
broadcast(cs, obj) == [to |-> OpenClients(cs), msg |-> obj]

\* one seeded node
SeedNode(i, type, hm) ==
    [type |-> type, x |-> NodeSeedPos(i)[1], y |-> NodeSeedPos(i)[2],
     hp |-> hm[1], maxHp |-> hm[2], respawnAt |-> 0]

\* seedNodes()
seedNodesFrom(seeds) ==
    \E s \in seeds : nodes = [i \in NodeIds |-> SeedNode(i, SeedType(i, s), SeedHp(i))]

seedNodes == seedNodesFrom(Seeds)

\* the state after construction, for the seeds given
\* script.js connect(): a new socket, CONNECTING, becomes `ws`; the sockets made
\* before it keep their listeners.  cl.socks[s] is the readyState of socket s,
\* cl.joins[s] the join messages sent on it, cl.timers the pending
\* setTimeout(connect, 2000) calls.
connect(cl) ==
    [cl EXCEPT !.socks = Append(@, "connecting"),
               !.ws = Len(cl.socks) + 1,
               !.joins = Append(@, 0)]

\* the state after construction; init() of script.js has run connect() once
InitFrom(seeds) ==
    /\ players = << >>
    /\ seedNodesFrom(seeds)
    /\ buildings = << >>
    /\ nextPlayerId = 1
    /\ conn = [c \in Conns |-> [st |-> "new", pid |-> 0]]
    /\ now = StartMs
    /\ nMoves = 0
    /\ last = NoEvent
    /\ before = Registry
    /\ sent = << >>
    /\ client = connect([socks |-> << >>, ws |-> 0, timers |-> 0, joins |-> << >>])

Init == InitFrom(Seeds)

(* ------------------------------------------------------------------ *)
(* Connections and sessions                                            *)
(* ------------------------------------------------------------------ *)
\* wss.on("connection")
Connect(c) ==
    /\ conn[c].st = "new"
    /\ conn' = [conn EXCEPT ![c] = [st |-> "open", pid |-> 0]]
    /\ Handled(Event("connect", 0, ""))
    /\ UNCHANGED <<players, nodes, buildings, nextPlayerId, now, nMoves>>

\* createPlayer(name), with the id, the position and the clock it draws
\* createPlayer that starts the player one hit down
createPlayerWounded(id, name, sp) ==
    [name |-> StrOr(name, PlayerPN(id)), x |-> sp[1], y |-> sp[2], hp |-> FULL_HP - HIT_DAMAGE,
     kills |-> 0, inv |-> [wood |-> 0, stone |-> 0, food |-> 0], lastActive |-> now]

createPlayer(id, name, sp) ==
    [name |-> StrOr(name, PlayerPN(id)), x |-> sp[1], y |-> sp[2], hp |-> FULL_HP, kills |-> 0,
     inv |-> [wood |-> 0, stone |-> 0, food |-> 0], lastActive |-> now]

\* Admit whose welcome carries the snapshot taken before the player was created
AdmitStale(c, name) ==
    /\ conn[c].st = "open"
    /\ \E sp \in SpawnPoints :
         LET p  == createPlayer(nextPlayerId, sanitize(StrOr(name, PlayerN(nextPlayerId))), sp)
             ps == [q \in DOMAIN players \cup {nextPlayerId} |->
                       IF q = nextPlayerId THEN p ELSE players[q]]
         IN  /\ players' = ps
             /\ HandledSending(
                    [Event("join", nextPlayerId, "") EXCEPT !.tgt = conn[c].pid],
                    << [to |-> {c},
                        msg |-> [type |-> "welcome", id |-> nextPlayerId,
                                 state |-> Stringify(snapshotState(players, nodes, buildings)),
                                 tick |-> now]],
                       broadcast(conn, [type |-> "chat", fromName |-> SystemName,
                                        text |-> p.name \o JoinedText]) >>)
    /\ nextPlayerId' = nextPlayerId + 1
    /\ conn' = [conn EXCEPT ![c].pid = nextPlayerId]
    /\ UNCHANGED <<nodes, buildings, now, nMoves>>

\* ws.on("message"), msg.type === "join", for a message whose name is name:
\* the connection's pid is overwritten whether or not it was set
Admit(c, name) ==
    /\ conn[c].st = "open"
    /\ \E sp \in SpawnPoints :
         LET p  == createPlayer(nextPlayerId, sanitize(StrOr(name, PlayerN(nextPlayerId))), sp)
             ps == [q \in DOMAIN players \cup {nextPlayerId} |->
                       IF q = nextPlayerId THEN p ELSE players[q]]
         IN  /\ players' = ps
             /\ HandledSending(
                    [Event("join", nextPlayerId, "") EXCEPT !.tgt = conn[c].pid],
                    << [to |-> {c},
                        msg |-> [type |-> "welcome", id |-> nextPlayerId,
                                 state |-> Stringify(snapshotState(ps, nodes, buildings)),
                                 tick |-> now]],
                       broadcast(conn, [type |-> "chat", fromName |-> SystemName,
                                        text |-> p.name \o JoinedText]) >>)
    /\ nextPlayerId' = nextPlayerId + 1
    /\ conn' = [conn EXCEPT ![c].pid = nextPlayerId]
    /\ UNCHANGED <<nodes, buildings, now, nMoves>>

\* a join message that carries no name
Join(c) ==
    /\ nextPlayerId <= MaxPlayers
    /\ Admit(c, << >>)

\* a join message with any of the names, on a connection that may have joined
\* already
JoinAs(c) ==
    /\ nextPlayerId <= MaxPlayers + 1
    /\ \E name \in JoinNames : Admit(c, name)

\* Close that tells nobody
CloseSilently(c) ==
    /\ conn[c].st = "open"
    /\ conn' = [conn EXCEPT ![c].st = "closed"]
    /\ players' = [q \in DOMAIN players \ {conn[c].pid} |-> players[q]]
    /\ Handled(Event("close", conn[c].pid, IF conn[c].pid \in DOMAIN players THEN "left" ELSE ""))
    /\ UNCHANGED <<nodes, buildings, nextPlayerId, now, nMoves>>

\* Close that takes the leaving player's structures away
CloseRazing(c) ==
    /\ conn[c].st = "open"
    /\ conn' = [conn EXCEPT ![c].st = "closed"]
    /\ players' = [q \in DOMAIN players \ {conn[c].pid} |-> players[q]]
    /\ buildings' = SelectSeq(buildings, LAMBDA b : b.owner # conn[c].pid)
    /\ Handled(Event("close", conn[c].pid, IF conn[c].pid \in DOMAIN players THEN "left" ELSE ""))
    /\ UNCHANGED <<nodes, nextPlayerId, now, nMoves>>

\* ws.on("close"): the closing connection is no longer OPEN when the
\* departure is broadcast
Close(c) ==
    /\ conn[c].st = "open"
    /\ conn' = [conn EXCEPT ![c].st = "closed"]
    /\ IF conn[c].pid # 0 /\ conn[c].pid \in DOMAIN players
         THEN /\ players' = [q \in DOMAIN players \ {conn[c].pid} |-> players[q]]
              /\ HandledSending(
                     Event("close", conn[c].pid, "left"),
                     << broadcast([conn EXCEPT ![c].st = "closed"],
                                  [type |-> "playerLeft", id |-> conn[c].pid,
                                   name |-> players[conn[c].pid].name]) >>)
         ELSE /\ players' = players
              /\ Handled(Event("close", conn[c].pid, ""))
    /\ UNCHANGED <<nodes, buildings, nextPlayerId, now, nMoves>>

\* the guard of the non-join branch of ws.on("message"): the connection is
\* bound and its player is in the registry
Bound(c) == conn[c].st = "open" /\ conn[c].pid # 0 /\ conn[c].pid \in DOMAIN players

\* player.lastActive = Date.now(), before handleClientMessage(player, msg)
Touched(p) == [players EXCEPT ![p].lastActive = now]

\* a coordinate a client message is built from: the client never sends NaN
Anchor(v) == IF IsNum(v) THEN v ELSE 0

(* ------------------------------------------------------------------ *)
(* handleClientMessage: input                                          *)
(* ------------------------------------------------------------------ *)
\* fixed-point scale of the unit direction vector
Prec == 10000

\* vx, vy before normalisation
AxisX(keys) == (IF "right" \in keys THEN 1 ELSE 0) - (IF "left" \in keys THEN 1 ELSE 0)
AxisY(keys) == (IF "down" \in keys THEN 1 ELSE 0) - (IF "up" \in keys THEN 1 ELSE 0)

\* Mag that skips the normalisation
MagOne(vx, vy) == Prec

\* Math.hypot(vx, vy) || 1, scaled by Prec
Mag(vx, vy) == OrElse(ISqrt((vx * vx + vy * vy) * Prec * Prec), Prec)

\* vx/mag*PLAYER_SPEED, in hundredths of a unit per second
Velocity(v, mag) == TruncDiv(v * Prec * PLAYER_SPEED * 100, mag)

\* v*secs with secs = (msg.dt || 100)/1000, truncated to whole units
Displacement(vel, dt) ==
    LET ms == ToNumber(OrElse(dt, DEFAULT_DT))
    IN  IF IsNum(ms) THEN TruncDiv(vel * ms, 100000) ELSE NaN

MoveX(p, keys, dt) ==
    clamp(Add(p.x, Displacement(Velocity(AxisX(keys), Mag(AxisX(keys), AxisY(keys))), dt)), 0, WORLD.W)
MoveY(p, keys, dt) ==
    clamp(Add(p.y, Displacement(Velocity(AxisY(keys), Mag(AxisX(keys), AxisY(keys))), dt)), 0, WORLD.H)

\* the client's CONFIG
CONFIG == [WORLD_W |-> 3000, WORLD_H |-> 2000, PLAYER_SPEED |-> 220]

\* applyLocalPrediction without the normalisation of the direction
applyLocalPredictionRaw(local, keys, ms) ==
    LET vx == AxisX(keys) * CONFIG.PLAYER_SPEED * 100
        vy == AxisY(keys) * CONFIG.PLAYER_SPEED * 100
    IN  <<clamp(Add(local.x, TruncDiv(vx * ms, 100000)), 0, CONFIG.WORLD_W),
          clamp(Add(local.y, TruncDiv(vy * ms, 100000)), 0, CONFIG.WORLD_H)>>

\* the client's applyLocalPrediction(input, secs) for secs = ms/1000: the new
\* (local.x, local.y), the velocity in hundredths of a unit per second and the
\* displacement truncated to whole units, as on the server's side of the model
applyLocalPrediction(local, keys, ms) ==
    LET mag == OrElse(ISqrt((AxisX(keys) * AxisX(keys) + AxisY(keys) * AxisY(keys)) * Prec * Prec), Prec)
        vx  == TruncDiv(AxisX(keys) * Prec * CONFIG.PLAYER_SPEED * 100, mag)
        vy  == TruncDiv(AxisY(keys) * Prec * CONFIG.PLAYER_SPEED * 100, mag)
    IN  <<clamp(Add(local.x, TruncDiv(vx * ms, 100000)), 0, CONFIG.WORLD_W),
          clamp(Add(local.y, TruncDiv(vy * ms, 100000)), 0, CONFIG.WORLD_H)>>

\* handleClientMessage, msg.type === "input", for a message whose dt is one of dts
InputWith(c, dts) ==
    /\ Bound(c)
    /\ nMoves < MaxMoves
    /\ \E keys \in SUBSET Directions, dt \in dts :
         LET p == conn[c].pid IN
         /\ players' = [Touched(p) EXCEPT ![p].x = MoveX(players[p], keys, dt),
                                          ![p].y = MoveY(players[p], keys, dt)]
         /\ Handled([Event("input", p, "moved") EXCEPT !.x = AxisX(keys), !.y = AxisY(keys), !.tgt = dt])
    /\ nMoves' = nMoves + 1
    /\ UNCHANGED <<nodes, buildings, nextPlayerId, conn, now>>

Input(c) == InputWith(c, DtValues)

InputAny(c) == InputWith(c, DtAny)

\* an input message with the dt the client sends
InputDefault(c) == InputWith(c, {DEFAULT_DT})

\* an input message whose dt is text
InputBad(c) == InputWith(c, {NonNumeric})

\* an input message without a keys object: msg.keys.up throws a TypeError,
\* which ws.on("message") catches and logs
InputNoKeys(c) ==
    /\ Bound(c)
    /\ players' = Touched(conn[c].pid)
    /\ Handled(Event("input", conn[c].pid, "threw"))
    /\ UNCHANGED <<nodes, buildings, nextPlayerId, conn, now, nMoves>>

(* ------------------------------------------------------------------ *)
(* handleClientMessage: action tapMove                                 *)
(* ------------------------------------------------------------------ *)
\* player.x += dx * Math.min(1, 40/dist), for dist > 0
\* TapStep without the cap
TapStepWhole(d, dist) == d

TapStep(d, dist) == IF dist <= TAP_STEP THEN d ELSE TruncDiv(d * TAP_STEP, dist)

\* (msg.x, msg.y) of the tapMove messages explored for a player
TapPoints(p) == {<<Anchor(p.x) + off[1], Anchor(p.y) + off[2]>> : off \in TapOffsets}

\* handleClientMessage, msg.action === "tapMove", for a tap at one of pts
TapMoveWith(c, pts) ==
    /\ Bound(c)
    /\ nMoves < MaxMoves
    /\ \E pt \in pts :
         LET p  == conn[c].pid
             mx == pt[1]
             my == pt[2]
             dx == Sub(ToNumber(mx), players[p].x)
             dy == Sub(ToNumber(my), players[p].y)
             d2 == Hypot2(dx, dy)
         IN  /\ IF IsNum(d2) /\ d2 > 0
                  THEN players' = [Touched(p) EXCEPT ![p].x = players[p].x + TapStep(dx, ISqrt(d2)),
                                                     ![p].y = players[p].y + TapStep(dy, ISqrt(d2))]
                  ELSE players' = Touched(p)
             /\ Handled([Event("tapMove", p, IF IsNum(d2) /\ d2 > 0 THEN "moved" ELSE "stay")
                                 EXCEPT !.x = mx, !.y = my])
    /\ nMoves' = nMoves + 1
    /\ UNCHANGED <<nodes, buildings, nextPlayerId, conn, now>>

TapMove(c) == TapMoveWith(c, IF Bound(c) THEN TapPoints(players[conn[c].pid]) ELSE {})

\* a tapMove that lacks its coordinates or carries text in their place
TapMoveBad(c) == TapMoveWith(c, BadCoords)

(* ------------------------------------------------------------------ *)
(* handleClientMessage: place                                          *)
(* ------------------------------------------------------------------ *)
\* const cost = kind==="wall" ? {wood:5} : {wood:10, stone:5}
Cost(kind) == IF kind = "wall" THEN [wood |-> 5] ELSE [wood |-> 10, stone |-> 5]

\* Enough with the comparison turned round
EnoughReversed(inv, cost) == \A k \in DOMAIN cost : OrElse(inv[k], 0) <= cost[k]

\* Object.keys(cost).every(k => (player.inv[k]||0) >= cost[k])
Enough(inv, cost) == \A k \in DOMAIN cost : OrElse(inv[k], 0) >= cost[k]

\* Debit that takes the wood and forgets the other resources
DebitWoodOnly(inv, cost) == [k \in DOMAIN inv |-> IF k = "wood" /\ k \in DOMAIN cost THEN inv[k] - cost[k] ELSE inv[k]]

\* for(const k in cost) player.inv[k] -= cost[k]
Debit(inv, cost) == [k \in DOMAIN inv |-> IF k \in DOMAIN cost THEN inv[k] - cost[k] ELSE inv[k]]

\* Math.hypot(player.x - msg.x, player.y - msg.y) > ACTION_RANGE
TooFar(p, mx, my) == HypotGreater(Sub(p.x, ToNumber(mx)), Sub(p.y, ToNumber(my)), ACTION_RANGE)

\* "b" + Date.now() + Math.random().toString(36).slice(2,6): the prefix, the
\* millisecond and the random suffix, kept apart
BuildingId(t, sfx) == <<"b", t, sfx>>

\* the structure pushed
Building(id, kind, mx, my, owner) ==
    [id |-> id, kind |-> IF kind = "wall" THEN "wall" ELSE "camp", x |-> mx, y |-> my,
     owner |-> owner]

\* msg.x of the place messages explored for a player
PlaceXs(p) == {Anchor(p.x) + off : off \in PlaceOffsets}

\* (msg.x, msg.y) of the place messages explored for a player
PlacePoints(p) == {<<mx, Anchor(p.y)>> : mx \in PlaceXs(p)}

\* handleClientMessage, msg.type === "place", for a target that is one of pts, a
\* random suffix that is one of sfxs, and at most cap structures in all
PlaceFull(c, pts, sfxs, cap) ==
    /\ Bound(c)
    /\ \E kind \in PlaceKinds, pt \in pts, sfx \in sfxs :
         LET p  == conn[c].pid
             mx == pt[1]
             my == pt[2]
             ev == [Event("place", p, "") EXCEPT !.kind = kind, !.x = mx, !.y = my]
         IN  IF ~Enough(players[p].inv, Cost(kind))
               THEN /\ Handled([ev EXCEPT !.res = "nocost"])
                    /\ players' = Touched(p)
                    /\ buildings' = buildings
             ELSE IF TooFar(players[p], mx, my)
               THEN /\ Handled([ev EXCEPT !.res = "norange"])
                    /\ players' = Touched(p)
                    /\ buildings' = buildings
             ELSE /\ Len(buildings) < cap
                  /\ players' = [Touched(p) EXCEPT ![p].inv = Debit(players[p].inv, Cost(kind))]
                  /\ buildings' = Append(buildings,
                                         Building(BuildingId(now, sfx), kind, mx, my, p))
                  /\ Handled([ev EXCEPT !.res = "built"])
    /\ UNCHANGED <<nodes, nextPlayerId, conn, now, nMoves>>

\* the place handler for one outcome of Math.random()
PlaceWith(c, pts) == PlaceFull(c, pts, {Suffixes[1]}, MaxBuildings)

Place(c) == PlaceWith(c, IF Bound(c) THEN PlacePoints(players[conn[c].pid]) ELSE {})

PlaceAny(c) ==
    PlaceWith(c, IF Bound(c) THEN PlacePoints(players[conn[c].pid]) \cup BadCoords ELSE {})

(* ------------------------------------------------------------------ *)
(* handleClientMessage: action click                                   *)
(* ------------------------------------------------------------------ *)
\* InHitRadius with the harvest radius in place of the hit radius
InHitRadiusWide(other, mx, my) ==
    HypotLess(Sub(other.x, ToNumber(mx)), Sub(other.y, ToNumber(my)), HARVEST_RADIUS)

\* Math.hypot(other.x - mx, other.y - my) < 40
InHitRadius(other, mx, my) ==
    HypotLess(Sub(other.x, ToNumber(mx)), Sub(other.y, ToNumber(my)), HIT_RADIUS)

\* the players the attack loop stops at: not the actor, inside the radius
Hittable(p, mx, my) == {q \in DOMAIN players \ {p} : InHitRadius(players[q], mx, my)}

\* for(const oid in state.players): keys in insertion order, which is id order
FirstOf(S) == CHOOSE q \in S : \A r \in S : q <= r

\* Harvestable without the test that the node is live
HarvestableDepleted(n, actor, mx, my) ==
    /\ HypotLess(Sub(n.x, ToNumber(mx)), Sub(n.y, ToNumber(my)), HARVEST_RADIUS)
    /\ HypotLess(Sub(actor.x, n.x), Sub(actor.y, n.y), ACTION_RANGE)

\* the condition of the harvest loop
Harvestable(n, actor, mx, my) ==
    /\ n.hp > 0
    /\ HypotLess(Sub(n.x, ToNumber(mx)), Sub(n.y, ToNumber(my)), HARVEST_RADIUS)
    /\ HypotLess(Sub(actor.x, n.x), Sub(actor.y, n.y), ACTION_RANGE)

Qualifying(p, mx, my) == {i \in NodeIds : Harvestable(nodes[i], players[p], mx, my)}

\* the yield of a depleted node, added to the inventory
Yield(inv, type) ==
    LET a == IF type = "tree"  THEN [inv EXCEPT !.wood  = OrElse(inv.wood, 0) + 5]  ELSE inv
        b == IF type = "rock"  THEN [a   EXCEPT !.stone = OrElse(a.stone, 0) + 3]   ELSE a
        d == IF type = "berry" THEN [b   EXCEPT !.food  = OrElse(b.food, 0) + 4]    ELSE b
    IN       IF type = "wood"  THEN [d   EXCEPT !.wood  = OrElse(d.wood, 0) + 8]    ELSE d

\* Attack that hands the attacker the whole drop
AttackFullDrop(p, q, ev) ==
    IF players[q].hp - HIT_DAMAGE <= 0
      THEN LET dropWood == MathMin(DROP_CAP, OrElse(players[q].inv.wood, 0)) IN
           \E sp \in SpawnPoints :
             /\ players' = [Touched(p) EXCEPT
                   ![p].kills = OrElse(players[p].kills, 0) + 1,
                   ![p].inv.wood = players[p].inv.wood + dropWood,
                   ![q].hp = FULL_HP,
                   ![q].inv.wood = MathMax(0, OrElse(players[q].inv.wood, 0) - dropWood),
                   ![q].x = sp[1],
                   ![q].y = sp[2]]
             /\ Handled([ev EXCEPT !.res = "kill", !.tgt = q])
      ELSE /\ players' = [Touched(p) EXCEPT ![q].hp = players[q].hp - HIT_DAMAGE]
           /\ Handled([ev EXCEPT !.res = "hit", !.tgt = q])

\* Attack that damages every player inside the radius of the click
AttackSplash(p, q, ev) ==
    /\ players' = [r \in DOMAIN players |->
                      IF r # p /\ HypotLess(Sub(players[r].x, ev.x), Sub(players[r].y, ev.y), HIT_RADIUS)
                        THEN [players[r] EXCEPT !.hp = IF @ > HIT_DAMAGE THEN @ - HIT_DAMAGE ELSE FULL_HP]
                        ELSE Touched(p)[r]]
    /\ Handled([ev EXCEPT !.res = "hit", !.tgt = q])

\* Attack that leaves the victim of a lethal hit at the health the hit gave
AttackNoHeal(p, q, ev) ==
    IF players[q].hp - HIT_DAMAGE <= 0
      THEN LET dropWood == MathMin(DROP_CAP, OrElse(players[q].inv.wood, 0)) IN
           \E sp \in SpawnPoints :
             /\ players' = [Touched(p) EXCEPT
                   ![p].kills = OrElse(players[p].kills, 0) + 1,
                   ![p].inv.wood = players[p].inv.wood + (dropWood \div 2),
                   ![q].hp = players[q].hp - HIT_DAMAGE,
                   ![q].inv.wood = MathMax(0, OrElse(players[q].inv.wood, 0) - dropWood),
                   ![q].x = sp[1],
                   ![q].y = sp[2]]
             /\ Handled([ev EXCEPT !.res = "kill", !.tgt = q])
      ELSE /\ players' = [Touched(p) EXCEPT ![q].hp = players[q].hp - HIT_DAMAGE]
           /\ Handled([ev EXCEPT !.res = "hit", !.tgt = q])

\* Attack that takes the dropped wood from the victim without the floor at zero
AttackOverdraw(p, q, ev) ==
    IF players[q].hp - HIT_DAMAGE <= 0
      THEN \E sp \in SpawnPoints :
             /\ players' = [Touched(p) EXCEPT
                   ![p].kills = OrElse(players[p].kills, 0) + 1,
                   ![p].inv.wood = players[p].inv.wood + (DROP_CAP \div 2),
                   ![q].hp = FULL_HP,
                   ![q].inv.wood = OrElse(players[q].inv.wood, 0) - DROP_CAP,
                   ![q].x = sp[1],
                   ![q].y = sp[2]]
             /\ Handled([ev EXCEPT !.res = "kill", !.tgt = q])
      ELSE /\ players' = [Touched(p) EXCEPT ![q].hp = players[q].hp - HIT_DAMAGE]
           /\ Handled([ev EXCEPT !.res = "hit", !.tgt = q])

\* the attack branch, on the first player q inside the radius
Attack(p, q, ev) ==
    IF players[q].hp - HIT_DAMAGE <= 0
      THEN LET dropWood == MathMin(DROP_CAP, OrElse(players[q].inv.wood, 0)) IN
           \E sp \in SpawnPoints :
             /\ players' = [Touched(p) EXCEPT
                   ![p].kills = OrElse(players[p].kills, 0) + 1,
                   ![p].inv.wood = players[p].inv.wood + (dropWood \div 2),
                   ![q].hp = FULL_HP,
                   ![q].inv.wood = MathMax(0, OrElse(players[q].inv.wood, 0) - dropWood),
                   ![q].x = sp[1],
                   ![q].y = sp[2]]
             /\ Handled([ev EXCEPT !.res = "kill", !.tgt = q])
      ELSE /\ players' = [Touched(p) EXCEPT ![q].hp = players[q].hp - HIT_DAMAGE]
           /\ Handled([ev EXCEPT !.res = "hit", !.tgt = q])

\* Harvest that forgets to schedule the respawn
HarvestNoRespawnAt(p, i, ev) ==
    IF nodes[i].hp - HARVEST_DAMAGE <= 0
      THEN /\ players' = [Touched(p) EXCEPT ![p].inv = Yield(players[p].inv, nodes[i].type)]
           /\ nodes' = [nodes EXCEPT ![i].hp = 0]
           /\ Handled([ev EXCEPT !.res = "deplete", !.tgt = i])
      ELSE /\ players' = Touched(p)
           /\ nodes' = [nodes EXCEPT ![i].hp = nodes[i].hp - HARVEST_DAMAGE]
           /\ Handled([ev EXCEPT !.res = "harvest", !.tgt = i])

\* Harvest that grants the yield on every hit
HarvestYieldEveryHit(p, i, ev) ==
    IF nodes[i].hp - HARVEST_DAMAGE <= 0
      THEN /\ players' = [Touched(p) EXCEPT ![p].inv = Yield(players[p].inv, nodes[i].type)]
           /\ nodes' = [nodes EXCEPT ![i].respawnAt = now + RESPAWN_MS, ![i].hp = 0]
           /\ Handled([ev EXCEPT !.res = "deplete", !.tgt = i])
      ELSE /\ players' = [Touched(p) EXCEPT ![p].inv = Yield(players[p].inv, nodes[i].type)]
           /\ nodes' = [nodes EXCEPT ![i].hp = nodes[i].hp - HARVEST_DAMAGE]
           /\ Handled([ev EXCEPT !.res = "harvest", !.tgt = i])

\* Harvest that stops after the damage and the yield: node.hp is left below 0
\* and no respawn is scheduled
HarvestMidway(p, i, ev) ==
    IF nodes[i].hp - HARVEST_DAMAGE <= 0
      THEN /\ players' = [Touched(p) EXCEPT ![p].inv = Yield(players[p].inv, nodes[i].type)]
           /\ nodes' = [nodes EXCEPT ![i].hp = nodes[i].hp - HARVEST_DAMAGE]
           /\ Handled([ev EXCEPT !.res = "deplete", !.tgt = i])
      ELSE /\ players' = Touched(p)
           /\ nodes' = [nodes EXCEPT ![i].hp = nodes[i].hp - HARVEST_DAMAGE]
           /\ Handled([ev EXCEPT !.res = "harvest", !.tgt = i])

\* the harvest branch, on the first qualifying node i
Harvest(p, i, ev) ==
    IF nodes[i].hp - HARVEST_DAMAGE <= 0
      THEN /\ players' = [Touched(p) EXCEPT ![p].inv = Yield(players[p].inv, nodes[i].type)]
           /\ nodes' = [nodes EXCEPT ![i].respawnAt = now + RESPAWN_MS, ![i].hp = 0]
           /\ Handled([ev EXCEPT !.res = "deplete", !.tgt = i])
      ELSE /\ players' = Touched(p)
           /\ nodes' = [nodes EXCEPT ![i].hp = nodes[i].hp - HARVEST_DAMAGE]
           /\ Handled([ev EXCEPT !.res = "harvest", !.tgt = i])

\* (msg.x, msg.y) of the click messages explored for a player
ClickPoints(p) ==
    {<<Anchor(players[q].x) + off, Anchor(players[q].y)>> : q \in DOMAIN players \ {p}, off \in HitOffsets}
    \cup {<<nodes[i].x + off, nodes[i].y>> : i \in NodeIds, off \in NodeOffsets}

\* handleClientMessage, msg.action === "click", for a click at one of pts
ClickWith(c, pts) ==
    /\ Bound(c)
    /\ players[conn[c].pid].kills < MaxKills
    /\ \E pt \in pts :
         LET p  == conn[c].pid
             mx == pt[1]
             my == pt[2]
             ev == [Event("click", p, "") EXCEPT !.x = mx, !.y = my]
         IN  IF Hittable(p, mx, my) # {}
               THEN /\ Attack(p, FirstOf(Hittable(p, mx, my)), ev)
                    /\ nodes' = nodes
             ELSE IF Qualifying(p, mx, my) # {}
               THEN Harvest(p, FirstOf(Qualifying(p, mx, my)), ev)
             ELSE /\ Handled([ev EXCEPT !.res = "miss"])
                  /\ players' = Touched(p)
                  /\ nodes' = nodes
    /\ UNCHANGED <<buildings, nextPlayerId, conn, now, nMoves>>

Click(c) == ClickWith(c, IF Bound(c) THEN ClickPoints(conn[c].pid) ELSE {})

ClickAny(c) == ClickWith(c, IF Bound(c) THEN ClickPoints(conn[c].pid) \cup BadCoords ELSE {})

(* ------------------------------------------------------------------ *)
(* handleClientMessage: setName                                        *)
(* ------------------------------------------------------------------ *)
\* the setName handler giving the name to every player
SetNameEveryone(c, names) ==
    /\ Bound(c)
    /\ \E name \in names :
         LET p == conn[c].pid IN
         /\ players' = [q \in DOMAIN players |->
                          [Touched(p)[q] EXCEPT !.name = Slice(StrOr(name, players[p].name), NAME_SLICE)]]
         /\ Handled([Event("setName", p, IF name = << >> THEN "kept" ELSE "renamed")
                         EXCEPT !.text = name])
    /\ UNCHANGED <<nodes, buildings, nextPlayerId, conn, now, nMoves>>

\* player.name = String(msg.name || player.name).slice(0,16)
SetNameWith(c, names) ==
    /\ Bound(c)
    /\ \E name \in names :
         LET p == conn[c].pid IN
         /\ players' = [Touched(p) EXCEPT ![p].name = Slice(StrOr(name, players[p].name), NAME_SLICE)]
         /\ Handled([Event("setName", p, IF name = << >> THEN "kept" ELSE "renamed")
                         EXCEPT !.text = name])
    /\ UNCHANGED <<nodes, buildings, nextPlayerId, conn, now, nMoves>>

SetName(c) == SetNameWith(c, NewNames)

\* a setName message whose name carries markup, or none
SetNameMarkup(c) == SetNameWith(c, MarkupNames)

(* ------------------------------------------------------------------ *)
(* handleClientMessage: chat                                           *)
(* ------------------------------------------------------------------ *)
\* ChatText that cuts the text and escapes nothing
ChatTextRaw(text) == Slice(text, CHAT_SLICE)

\* sanitize(String(msg.text || "")).slice(0,200)
ChatText(text) == Slice(sanitize(StrOr(text, << >>)), CHAT_SLICE)

\* handleClientMessage, msg.type === "chat"
Chat(c) ==
    /\ Bound(c)
    /\ \E text \in ChatTexts :
         LET p == conn[c].pid IN
         /\ players' = Touched(p)
         /\ HandledSending([Event("chat", p, "") EXCEPT !.text = text],
                           << broadcast(conn, [type |-> "chat", fromName |-> players[p].name,
                                               text |-> ChatText(text)]) >>)
    /\ UNCHANGED <<nodes, buildings, nextPlayerId, conn, now, nMoves>>

(* ------------------------------------------------------------------ *)

(* Messages that reach no branch                                       *)
(* ------------------------------------------------------------------ *)
\* a message of a type, or an action of a name, that handleClientMessage
\* has no branch for
Unknown(c) ==
    /\ Bound(c)
    /\ players' = Touched(conn[c].pid)
    /\ Handled(Event("unknown", conn[c].pid, ""))
    /\ UNCHANGED <<nodes, buildings, nextPlayerId, conn, now, nMoves>>

\* Dropped that answers the sender
DroppedReplying(c) ==
    /\ conn[c].st = "open" /\ ~Bound(c)
    /\ \E t \in IntentTypes :
         HandledSending([Event("dropped", conn[c].pid, "") EXCEPT !.kind = t],
                        << [to |-> {c}, msg |-> [type |-> "error"]] >>)
    /\ UNCHANGED <<players, nodes, buildings, nextPlayerId, conn, now, nMoves>>

\* a message other than join on a connection that has no player, or whose
\* player has left the registry: if(!pid) return; if(!player) return
Dropped(c) ==
    /\ conn[c].st = "open" /\ ~Bound(c)
    /\ \E t \in IntentTypes : Handled([Event("dropped", conn[c].pid, "") EXCEPT !.kind = t])
    /\ UNCHANGED <<players, nodes, buildings, nextPlayerId, conn, now, nMoves>>

\* a payload JSON.parse throws on
Garbled(c) ==
    /\ conn[c].st = "open"
    /\ Handled(Event("garbled", conn[c].pid, "threw"))
    /\ UNCHANGED <<players, nodes, buildings, nextPlayerId, conn, now, nMoves>>

(* ------------------------------------------------------------------ *)
(* Timers and the clock                                                *)
(* ------------------------------------------------------------------ *)
\* a node is due: n.hp <= 0 && n.respawnAt && n.respawnAt <= nowt
\* Due that does not wait for the timestamp
DueEarly(n, nowt) == n.hp <= 0 /\ Truthy(n.respawnAt)

Due(n, nowt) == n.hp <= 0 /\ Truthy(n.respawnAt) /\ n.respawnAt <= nowt

\* Respawned that clears the timestamp and leaves the node without health
RespawnedEmpty(n, jit, rnd) ==
    [n EXCEPT !.respawnAt = 0,
              !.x = clamp(n.x + jit[1], 0, WORLD.W),
              !.y = clamp(n.y + jit[2], 0, WORLD.H)]

\* the body of the loop of processRespawns for a due node
Respawned(n, jit, rnd) ==
    [n EXCEPT !.hp = OrElse(n.maxHp, rnd),
              !.respawnAt = 0,
              !.x = clamp(n.x + jit[1], 0, WORLD.W),
              !.y = clamp(n.y + jit[2], 0, WORLD.H)]

\* setInterval(processRespawns, 1000)
processRespawns ==
    /\ \E jit \in [NodeIds -> Jitters], rnd \in FallbackHps :
         nodes' = [i \in NodeIds |->
                     IF Due(nodes[i], now) THEN Respawned(nodes[i], jit[i], rnd) ELSE nodes[i]]
    /\ Handled(Event("respawn", 0, ""))
    /\ UNCHANGED <<players, buildings, nextPlayerId, conn, now, nMoves>>

\* Snapshot that hands out the structures and keeps none
SnapshotDraining ==
    /\ HandledSending(
           Event("snapshot", 0, IF last.op = "snapshot" THEN "again" ELSE "first"),
           << broadcast(conn, Stringify(snapshotState(players, nodes, buildings))
                                 @@ [type |-> "state", tick |-> now]) >>)
    /\ buildings' = << >>
    /\ UNCHANGED <<players, nodes, nextPlayerId, conn, now, nMoves>>

\* setInterval(() => broadcast({type:"state", ...}), 1000 / SNAPSHOT_RATE)
Snapshot ==
    /\ HandledSending(
           Event("snapshot", 0, IF last.op = "snapshot" THEN "again" ELSE "first"),
           << broadcast(conn, Stringify(snapshotState(players, nodes, buildings))
                                 @@ [type |-> "state", tick |-> now]) >>)
    /\ UNCHANGED <<players, nodes, buildings, nextPlayerId, conn, now, nMoves>>

\* Date.now() advances
TickUpTo(n) ==
    /\ now < StartMs + n * TickMs
    /\ now' = now + TickMs
    /\ Handled(Event("tick", 0, ""))
    /\ UNCHANGED <<players, nodes, buildings, nextPlayerId, conn, nMoves>>

Tick == TickUpTo(MaxTicks)

Next ==
    \/ \E c \in Conns : Connect(c)
    \/ \E c \in Conns : Join(c)
    \/ \E c \in Conns : Close(c)
    \/ \E c \in Conns : Input(c)
    \/ \E c \in Conns : TapMove(c)
    \/ \E c \in Conns : Place(c)
    \/ \E c \in Conns : Click(c)
    \/ processRespawns
    \/ Tick

Spec == Init /\ [][Next]_vars

(* ------------------------------------------------------------------ *)
(* The server restricted to one concern at a time                      *)
(* ------------------------------------------------------------------ *)
\* sessions and movement
NextMove ==
    \/ \E c \in Conns : Connect(c)
    \/ \E c \in Conns : Join(c)
    \/ \E c \in Conns : Close(c)
    \/ \E c \in Conns : TapMove(c)
    \/ \E c \in Conns : Input(c)

SpecMove == Init /\ [][NextMove]_vars

\* a join while the registry has never held a player
SoloJoin(c) == nextPlayerId = 1 /\ Join(c)

\* one player, the nodes, the structures and the timers
NextSolo ==
    \/ \E c \in Conns : Connect(c)
    \/ \E c \in Conns : SoloJoin(c)
    \/ \E c \in Conns : Close(c)
    \/ \E c \in Conns : Place(c)
    \/ \E c \in Conns : Click(c)
    \/ processRespawns
    \/ Tick

SpecSolo == Init /\ [][NextSolo]_vars

\* the place handler with every outcome of Math.random() explored and room for
\* MaxTimber structures
PlaceTimber(c) ==
    PlaceFull(c, IF Bound(c) THEN PlacePoints(players[conn[c].pid]) ELSE {},
              {Suffixes[k] : k \in DOMAIN Suffixes}, MaxTimber)

\* one player who harvests two wood-bearing nodes and builds, the clock standing
\* still: every build is resolved in the same millisecond
NextBuild ==
    \/ \E c \in Conns : Connect(c)
    \/ \E c \in Conns : SoloJoin(c)
    \/ \E c \in Conns : Click(c)
    \/ \E c \in Conns : PlaceTimber(c)

SpecBuild == InitFrom(TimberSeeds) /\ [][NextBuild]_vars

\* one player who harvests, the clock and the respawn timer; clicks are explored
\* while the clock can still reach the respawn time of a node they deplete
NextLive ==
    \/ \E c \in Conns : Connect(c)
    \/ \E c \in Conns : SoloJoin(c)
    \/ \E c \in Conns : now + RESPAWN_MS <= StartMs + LiveTicks * TickMs /\ Click(c)
    \/ processRespawns
    \/ TickUpTo(LiveTicks)

\* the clock advances and setInterval keeps calling processRespawns
SpecLive ==
    /\ Init
    /\ [][NextLive]_vars
    /\ WF_vars(TickUpTo(LiveTicks))
    /\ WF_vars(processRespawns)

\* several players and their clicks, the clock standing still
NextCombat ==
    \/ \E c \in Conns : Connect(c)
    \/ \E c \in Conns : Join(c)
    \/ \E c \in Conns : Close(c)
    \/ \E c \in Conns : Click(c)

SpecCombat == Init /\ [][NextCombat]_vars

\* a join while fewer than MaxPlayers + 1 players were ever created; a second
\* join on a connection leaves its first player in the registry
CrowdJoin(c) ==
    /\ nextPlayerId <= MaxPlayers + 1
    /\ Admit(c, << >>)

\* click positions between two players other than the actor, and at the nodes
CrowdPoints(p) ==
    {<<(players[q].x + players[r].x) \div 2, players[q].y>> : q, r \in DOMAIN players \ {p}}
    \cup {<<nodes[i].x, nodes[i].y>> : i \in NodeIds}

\* a click in a crowd that is still in good health
CrowdClick(c) ==
    /\ \A q \in DOMAIN players : players[q].hp >= CrowdMinHp
    /\ ClickWith(c, IF Bound(c) THEN CrowdPoints(conn[c].pid) ELSE {})

\* a place message whose target is the actor's own position
PlaceHere(c) ==
    PlaceWith(c, IF Bound(c)
                   THEN {<<Anchor(players[conn[c].pid].x), Anchor(players[conn[c].pid].y)>>}
                   ELSE {})

(* ------------------------------------------------------------------ *)
(* The server variant with the inactivity cleanup (unnamed/part_000)   *)
(* ------------------------------------------------------------------ *)
\* handleClientMessage of the variant, msg.type === "join": the name is taken
\* as sent, and clients.set(ws, p.id) binds the connection
Join000(c) ==
    /\ conn[c].st = "open"
    /\ nextPlayerId <= MaxPlayers
    /\ \E name \in JoinNames, sp \in SpawnPoints :
         LET p  == createPlayer(nextPlayerId, name, sp)
             ps == [q \in DOMAIN players \cup {nextPlayerId} |->
                       IF q = nextPlayerId THEN p ELSE players[q]]
         IN  /\ players' = ps
             /\ HandledSending(
                    [Event("join", nextPlayerId, "") EXCEPT !.tgt = conn[c].pid],
                    << [to |-> {c},
                        msg |-> [type |-> "welcome", id |-> nextPlayerId,
                                 state |-> Stringify(snapshotState(ps, nodes, buildings)),
                                 tick |-> now]],
                       broadcast(conn, [type |-> "chat", fromName |-> SystemName,
                                        text |-> p.name \o JoinedText]) >>)
    /\ nextPlayerId' = nextPlayerId + 1
    /\ conn' = [conn EXCEPT ![c].pid = nextPlayerId]
    /\ UNCHANGED <<nodes, buildings, now, nMoves>>

\* handleClientMessage of the variant, msg.type === "ping": the player is
\* looked up through clients.get(ws) and its lastActive is written
Ping000(c) ==
    /\ Bound(c)
    /\ players' = Touched(conn[c].pid)
    /\ Handled(Event("ping", conn[c].pid, ""))
    /\ UNCHANGED <<nodes, buildings, nextPlayerId, conn, now, nMoves>>

\* ws.on("close") of the variant: the closure's pid is never assigned, so the
\* guard fails and nothing is removed; the event keeps, as tgt, the player
\* clients.get(ws) names
Close000(c) ==
    /\ conn[c].st = "open"
    /\ conn' = [conn EXCEPT ![c].st = "closed"]
    /\ Handled([Event("close", 0, "") EXCEPT !.tgt = conn[c].pid])
    /\ UNCHANGED <<players, nodes, buildings, nextPlayerId, now, nMoves>>

\* Date.now() advances by minutes
Idle ==
    /\ now < StartMs + MaxIdles * IdleMs
    /\ now' = now + IdleMs
    /\ Handled(Event("idle", 0, ""))
    /\ UNCHANGED <<players, nodes, buildings, nextPlayerId, conn, nMoves>>

\* the keys of state.players in the order for..in visits them
RECURSIVE Ascending(_)
Ascending(S) ==
    IF S = {} THEN << >>
    ELSE LET m == CHOOSE x \in S : \A y \in S : x <= y IN <<m>> \o Ascending(S \ {m})

\* the tick loop of the variant: processRespawns(), then every player whose
\* lastActive is before the cutoff is deleted and announced; the name is read
\* after the delete, so state.players[id]?.name is undefined and the id is sent
tickLoop000 ==
    LET cutoff == now - INACTIVE_MS
        gone   == {q \in DOMAIN players : players[q].lastActive < cutoff}
        order  == Ascending(gone)
    IN  /\ \E jit \in [NodeIds -> Jitters], rnd \in FallbackHps :
             nodes' = [i \in NodeIds |->
                         IF Due(nodes[i], now) THEN Respawned(nodes[i], jit[i], rnd) ELSE nodes[i]]
        /\ players' = [q \in DOMAIN players \ gone |-> players[q]]
        /\ HandledSending(
               Event("cleanup", 0, IF gone = {} THEN "" ELSE "cleaned"),
               [k \in DOMAIN order |->
                  broadcast(conn, [type |-> "playerLeft", id |-> order[k],
                                   name |-> PN(order[k])])])
        /\ UNCHANGED <<buildings, nextPlayerId, conn, now, nMoves>>

\* the variant: sessions, pings, the clock and the tick loop
Next000 ==
    \/ \E c \in Conns : Connect(c)
    \/ \E c \in Conns : Join000(c)
    \/ \E c \in Conns : Ping000(c)
    \/ \E c \in Conns : Close000(c)
    \/ Idle
    \/ tickLoop000

Spec000 == Init /\ [][Next000]_vars

\* several players who harvest, build and kill, the clock standing still
NextEconomy ==
    \/ \E c \in Conns : Connect(c)
    \/ \E c \in Conns : Join(c)
    \/ \E c \in Conns : Click(c)
    \/ \E c \in Conns : PlaceHere(c)

SpecEconomy == Init /\ [][NextEconomy]_vars

\* a join message with no name or a long one
LongJoin(c) ==
    /\ nextPlayerId <= MaxPlayers
    /\ \E name \in LongJoinNames : Admit(c, name)

\* players who rename themselves and chat
NextChat ==
    \/ \E c \in Conns : Connect(c)
    \/ \E c \in Conns : LongJoin(c)
    \/ \E c \in Conns : SetName(c)
    \/ \E c \in Conns : Chat(c)
    \/ \E c \in Conns : Close(c)

SpecChat == Init /\ [][NextChat]_vars

\* a crowd: more players than connections, and their clicks
NextCrowd ==
    \/ \E c \in Conns : Connect(c)
    \/ \E c \in Conns : CrowdJoin(c)
    \/ \E c \in Conns : CrowdClick(c)

SpecCrowd == Init /\ [][NextCrowd]_vars

\* one player and every message a client can send, well formed or not
NextIntents ==
    \/ \E c \in Conns : Connect(c)
    \/ \E c \in Conns : SoloJoin(c)
    \/ \E c \in Conns : Close(c)
    \/ \E c \in Conns : InputNoKeys(c)
    \/ \E c \in Conns : InputBad(c)
    \/ \E c \in Conns : TapMoveBad(c)
    \/ \E c \in Conns : PlaceAny(c)
    \/ \E c \in Conns : ClickAny(c)
    \/ \E c \in Conns : Unknown(c)
    \/ \E c \in Conns : Garbled(c)

SpecIntents == Init /\ [][NextIntents]_vars

\* one player and its input messages, with every kind of elapsed-time value
NextInput ==
    \/ \E c \in Conns : Connect(c)
    \/ \E c \in Conns : SoloJoin(c)
    \/ \E c \in Conns : InputAny(c)
    \/ \E c \in Conns : InputNoKeys(c)

SpecInput == Init /\ [][NextInput]_vars

\* a click at the edge of a node's harvest radius, away from the spawn points
EdgeClick(c) == ClickWith(c, {<<nodes[i].x + HARVEST_RADIUS, nodes[i].y>> : i \in NodeIds})

\* several players who harvest and build, and the snapshot timer
NextBroadcast ==
    \/ \E c \in Conns : Connect(c)
    \/ \E c \in Conns : Join(c)
    \/ \E c \in Conns : Close(c)
    \/ \E c \in Conns : EdgeClick(c)
    \/ \E c \in Conns : Place(c)
    \/ Snapshot

SpecBroadcast == Init /\ [][NextBroadcast]_vars

\* two players and every intent but the attack: moves, chat, names, builds,
\* harvests at the edge of a node, and a message of a type with no branch
\* (ping); the players move while the nodes are as seeded, and chat, rename,
\* harvest and build while nobody has moved
NextFrame ==
    \/ \E c \in Conns : Connect(c)
    \/ \E c \in Conns : Join(c)
    \/ \E c \in Conns : (\A i \in NodeIds : nodes[i].hp = SeedHp(i)[1]) /\ InputDefault(c)
    \/ \E c \in Conns : (\A i \in NodeIds : nodes[i].hp = SeedHp(i)[1]) /\ TapMove(c)
    \/ \E c \in Conns : nMoves = 0 /\ Chat(c)
    \/ \E c \in Conns : nMoves = 0 /\ SetNameMarkup(c)
    \/ \E c \in Conns : nMoves = 0 /\ PlaceHere(c)
    \/ \E c \in Conns : nMoves = 0 /\ Unknown(c)
    \/ \E c \in Conns : nMoves = 0 /\ EdgeClick(c)

SpecFrame == Init /\ [][NextFrame]_vars

\* sessions: joins with names, repeated joins, renames, stray messages, closes
NextSession ==
    \/ \E c \in Conns : Connect(c)
    \/ \E c \in Conns : JoinAs(c)
    \/ \E c \in Conns : SetName(c)
    \/ \E c \in Conns : Dropped(c)
    \/ \E c \in Conns : Garbled(c)
    \/ \E c \in Conns : Close(c)

SpecSession == Init /\ [][NextSession]_vars


(* ================================================================== *)
(* Properties                                                          *)
(* ================================================================== *)
\* a position inside the world rectangle
InWorld(p) ==
    /\ IsNum(p.x) /\ IsNum(p.y)
    /\ 0 <= p.x /\ p.x <= WORLD.W
    /\ 0 <= p.y /\ p.y <= WORLD.H

\* the yield table of the specification
YieldTable(type) ==
    CASE type = "tree"  -> [wood |-> 5, stone |-> 0, food |-> 0]
      [] type = "rock"  -> [wood |-> 0, stone |-> 3, food |-> 0]
      [] type = "berry" -> [wood |-> 0, stone |-> 0, food |-> 4]
      [] type = "wood"  -> [wood |-> 8, stone |-> 0, food |-> 0]

\* the cost table of the specification
CostTable(kind) ==
    IF kind = "wall" THEN [wood |-> 5, stone |-> 0, food |-> 0]
                     ELSE [wood |-> 10, stone |-> 5, food |-> 0]

InvPlus(inv, g) ==
    [wood |-> inv.wood + g.wood, stone |-> inv.stone + g.stone, food |-> inv.food + g.food]
InvMinus(inv, g) ==
    [wood |-> inv.wood - g.wood, stone |-> inv.stone - g.stone, food |-> inv.food - g.food]
Below(inv, cost) ==
    inv.wood < cost.wood \/ inv.stone < cost.stone \/ inv.food < cost.food

\* the square of the distance between two points, for points that are numbers
Dist2(ax, ay, bx, by) == (ax - bx) * (ax - bx) + (ay - by) * (ay - by)

\* a player, and the players, without the last-active timestamp
Sans(pl) == [pl EXCEPT !.lastActive = 0]
SansClock(ps) == [q \in DOMAIN ps |-> Sans(ps[q])]

\* a structure without its identifier
SansId(b) == [kind |-> b.kind, x |-> b.x, y |-> b.y, owner |-> b.owner]

\* the nodes the last event depleted
Depleted == {i \in NodeIds : before.nodes[i].hp > 0 /\ nodes[i].hp <= 0}

\* the last event changed no inventory
InventoriesKept == \A q \in DOMAIN players : players[q].inv = before.players[q].inv

(* C1: after every input intent, whatever its flags and its elapsed-time   *)
(* value, the acting player's position is inside [0,W] x [0,H].            *)
C1_InputKeepsPositionInWorld ==
    last.op = "input" => InWorld(players[last.pid])

(* C2: in every reachable state every player in the registry has a         *)
(* position inside [0,W] x [0,H].                                          *)
C2_EveryPlayerInWorld ==
    \A q \in DOMAIN players : InWorld(players[q])

(* C3: every node is either live (hp > 0) or pending regeneration (its     *)
(* respawn timestamp is set), never both and never neither.                *)
C3_LiveXorPending ==
    \A i \in NodeIds :
        \/ nodes[i].hp > 0 /\ nodes[i].respawnAt = 0
        \/ ~(nodes[i].hp > 0) /\ nodes[i].respawnAt # 0

\* a node that went through a respawn has just been depleted again
C3_Witness ==
    /\ last.op = "click" /\ last.res = "deplete"
    /\ nodes[last.tgt].x # NodeSeedPos(last.tgt)[1]
    /\ nodes[last.tgt].hp = 0
    /\ nodes[last.tgt].respawnAt = now + RESPAWN_MS

(* C4: a depleted node is changed by no click and yields nothing, and its  *)
(* hp stays 0, before its respawn time; it becomes live again only by a    *)
(* respawn pass that runs at or after that time.                           *)
C4_DepletedUntilRespawn ==
    \A i \in NodeIds :
        before.nodes[i].hp <= 0 =>
            /\ before.nodes[i].hp = 0
            /\ last.op = "click" =>
                 /\ nodes[i] = before.nodes[i]
                 /\ ~(last.res \in {"harvest", "deplete"} /\ last.tgt = i)
                 /\ (Depleted = {} /\ last.res # "kill") => InventoriesKept
            /\ now < before.nodes[i].respawnAt => nodes[i] = before.nodes[i]
            /\ nodes[i] # before.nodes[i] =>
                 /\ last.op = "respawn"
                 /\ before.nodes[i].respawnAt <= now
                 /\ nodes[i].hp > 0

\* a click at a depleted node, in reach of the actor, before its respawn time
C4_Witness ==
    /\ last.op = "click"
    /\ \E i \in NodeIds :
         /\ before.nodes[i].hp = 0 /\ now < before.nodes[i].respawnAt
         /\ last.x = nodes[i].x /\ last.y = nodes[i].y
         /\ HypotLess(players[last.pid].x - nodes[i].x, players[last.pid].y - nodes[i].y, ACTION_RANGE)

(* C5: the yield of a node's type is added to the harvester's inventory    *)
(* exactly at the click that brings the node's hp to <= 0; a click that    *)
(* depletes no node changes no inventory.                                  *)
C5_YieldOncePerCycle ==
    last.op = "click" =>
        /\ Cardinality(Depleted) <= 1
        /\ \A i \in Depleted :
             /\ nodes[i].hp = 0
             /\ players[last.pid].inv =
                    InvPlus(before.players[last.pid].inv, YieldTable(nodes[i].type))
             /\ \A q \in DOMAIN players \ {last.pid} : players[q].inv = before.players[q].inv
        /\ (Depleted = {} /\ last.res # "kill") => InventoriesKept

\* a rock has just been depleted and the harvester holds its 3 stone
C5_Witness ==
    /\ last.op = "click"
    /\ \E i \in Depleted : nodes[i].type = "rock"
    /\ before.players[last.pid].inv.stone = 0
    /\ players[last.pid].inv.stone = 3

(* C6: a place intent of kind wall or camp from a player whose inventory   *)
(* is below the cost in some required resource changes neither the         *)
(* players nor the structures.                                             *)
C6_InsufficientBuildRejected ==
    (/\ last.op = "place"
     /\ last.kind \in {"wall", "camp"}
     /\ Below(before.players[last.pid].inv, CostTable(last.kind)))
    => SansClock(players) = SansClock(before.players) /\ buildings = before.buildings

\* a wall was asked for by a player holding some wood, but less than 5
C6_Witness ==
    /\ last.op = "place" /\ last.kind = "wall"
    /\ before.players[last.pid].inv.wood \in 1..4
    /\ ~TooFar(before.players[last.pid], last.x, last.y)

(* C7: a place intent of kind wall or camp that passes the cost check and  *)
(* the range check debits exactly the cost of the kind and appends one     *)
(* structure of that kind, at the target, owned by the actor; every        *)
(* structure has kind wall or camp.                                        *)
C7_BuildDebitsAndAppends ==
    /\ (/\ last.op = "place"
        /\ last.kind \in {"wall", "camp"}
        /\ ~Below(before.players[last.pid].inv, CostTable(last.kind))
        /\ ~TooFar(before.players[last.pid], last.x, last.y))
       => /\ SansClock(players) =
                 SansClock([before.players EXCEPT ![last.pid].inv =
                               InvMinus(before.players[last.pid].inv, CostTable(last.kind))])
          /\ Len(buildings) = Len(before.buildings) + 1
          /\ \A k \in 1..Len(before.buildings) : buildings[k] = before.buildings[k]
          /\ SansId(buildings[Len(buildings)]) =
                 [kind |-> last.kind, x |-> last.x, y |-> last.y, owner |-> last.pid]
    /\ \A k \in 1..Len(buildings) : buildings[k].kind \in {"wall", "camp"}

\* a camp has just been built by a player who could pay for it
C7_Witness ==
    /\ last.op = "place" /\ last.kind = "camp"
    /\ ~Below(before.players[last.pid].inv, CostTable("camp"))
    /\ Len(buildings) = Len(before.buildings) + 1
    /\ buildings[Len(buildings)].kind = "camp"

(* C8: every range check is strict: a player is hit only at distance < 40  *)
(* from the click, a node is harvested only at distance < 50 from the      *)
(* click and < 80 from the actor, and a build is accepted only at distance *)
(* < 80 from the actor.                                                    *)
C8_RangeChecksStrict ==
    /\ last.op = "click" =>
         /\ \A q \in DOMAIN players :
              players[q].hp # before.players[q].hp =>
                  HypotLess(Sub(before.players[q].x, last.x),
                            Sub(before.players[q].y, last.y), HIT_RADIUS)
         /\ \A i \in NodeIds :
              nodes[i] # before.nodes[i] =>
                  /\ HypotLess(Sub(nodes[i].x, last.x), Sub(nodes[i].y, last.y), HARVEST_RADIUS)
                  /\ HypotLess(Sub(players[last.pid].x, nodes[i].x),
                               Sub(players[last.pid].y, nodes[i].y), ACTION_RANGE)
    /\ (last.op = "place" /\ buildings # before.buildings) =>
         HypotLess(Sub(players[last.pid].x, last.x), Sub(players[last.pid].y, last.y),
                   ACTION_RANGE)

(* C9: a lethal hit adds 1 to the attacker's kills and floor(min(5,w)/2)   *)
(* to the attacker's wood, takes min(5,w) from the victim's wood w, which  *)
(* stays >= 0, heals the victim to 100 and puts it inside the world; a     *)
(* hit that is not lethal changes only the victim's health.                *)
C9_KillPolicy ==
    /\ (last.op = "click" /\ last.res \in {"hit", "kill"}) =>
         LET p == last.pid
             q == last.tgt
             old == before.players
             w == old[q].inv.wood
             d == IF w < 5 THEN w ELSE 5
         IN  /\ q \in DOMAIN players \ {p}
             /\ nodes = before.nodes
             /\ IF old[q].hp - 20 <= 0
                  THEN /\ Sans(players[p]) =
                            Sans([old[p] EXCEPT !.kills = @ + 1, !.inv.wood = @ + (d \div 2)])
                       /\ players[q].inv = [old[q].inv EXCEPT !.wood = w - d]
                       /\ players[q].inv.wood >= 0
                       /\ players[q].hp = 100
                       /\ players[q].kills = old[q].kills
                       /\ InWorld(players[q])
                       /\ \A r \in DOMAIN players \ {p, q} : players[r] = old[r]
                  ELSE SansClock(players) = SansClock([old EXCEPT ![q].hp = old[q].hp - 20])
    /\ (last.op = "click" /\ \E q \in DOMAIN players : players[q].hp # before.players[q].hp) =>
         last.res \in {"hit", "kill"}

\* a victim holding wood has just been killed and the attacker got its share
C9_Witness ==
    /\ last.op = "click" /\ last.res = "kill"
    /\ before.players[last.tgt].hp = 20
    /\ before.players[last.tgt].inv.wood = 5
    /\ players[last.tgt].hp = 100
    /\ players[last.pid].inv.wood = before.players[last.pid].inv.wood + 2

(* C10 as stated: with A and B 39 apart a click by A at B's position takes *)
(* 20 from B's health; with A and B 41 apart it leaves B's health          *)
(* unchanged and the click is evaluated against the nodes.                 *)
C10_Original ==
    last.op = "click" =>
        \A b \in DOMAIN players \ {last.pid} :
            LET A == before.players[last.pid]
                B == before.players[b]
            IN  (/\ IsNum(A.x) /\ IsNum(A.y) /\ IsNum(B.x) /\ IsNum(B.y)
                 /\ last.x = B.x /\ last.y = B.y) =>
                    /\ Dist2(A.x, A.y, B.x, B.y) = 39 * 39 => players[b].hp = B.hp - 20
                    /\ Dist2(A.x, A.y, B.x, B.y) = 41 * 41 =>
                          /\ players[b].hp = B.hp
                          /\ last.res \in {"harvest", "deplete", "miss"}

(* C10 as amended: the hit radius is measured from the click position,    *)
(* not from the attacker. A click 39 from B, B being the only other        *)
(* player within 40 of it, takes 20 from B's health (a lethal hit resets   *)
(* it to 100); a click 41 from B with no other player within 40 of it      *)
(* leaves B's health unchanged and is evaluated against the nodes.         *)
C10_HitRadiusFromClick ==
    last.op = "click" =>
        \A b \in DOMAIN players \ {last.pid} :
            LET B == before.players[b]
                near == {q \in DOMAIN players \ {last.pid} :
                            /\ IsNum(before.players[q].x) /\ IsNum(before.players[q].y)
                            /\ Dist2(last.x, last.y, before.players[q].x, before.players[q].y)
                                   < 40 * 40}
            IN  (IsNum(B.x) /\ IsNum(B.y)) =>
                    /\ (Dist2(last.x, last.y, B.x, B.y) = 39 * 39 /\ near = {b}) =>
                          players[b].hp = IF B.hp > 20 THEN B.hp - 20 ELSE 100
                    /\ (Dist2(last.x, last.y, B.x, B.y) = 41 * 41 /\ near = {}) =>
                          /\ players[b].hp = B.hp
                          /\ last.res \in {"harvest", "deplete", "miss"}

\* A's click 39 from B has taken 20 from B's health, A and B being 41 apart
C10_Witness ==
    /\ last.op = "click"
    /\ \E b \in DOMAIN players \ {last.pid} :
         /\ Dist2(last.x, last.y, before.players[b].x, before.players[b].y) = 39 * 39
         /\ Dist2(before.players[last.pid].x, before.players[last.pid].y,
                  before.players[b].x, before.players[b].y) = 41 * 41
         /\ players[b].hp = before.players[b].hp - 20

\* the players other than the actor within the hit radius of the last click
Near == {q \in DOMAIN before.players \ {last.pid} :
            Dist2(last.x, last.y, before.players[q].x, before.players[q].y) < 40 * 40}

\* the nodes that qualified for the last click
Ripe == {i \in NodeIds :
            /\ before.nodes[i].hp > 0
            /\ Dist2(last.x, last.y, before.nodes[i].x, before.nodes[i].y) < 50 * 50
            /\ Dist2(before.players[last.pid].x, before.players[last.pid].y,
                     before.nodes[i].x, before.nodes[i].y) < 80 * 80}

\* the players the last event damaged, and the nodes it changed
Damaged == {q \in DOMAIN before.players : players[q].hp # before.players[q].hp}
Struck == {i \in NodeIds : nodes[i] # before.nodes[i]}

(* C11: a click changes at most one target. If some other player is      *)
(* within the hit radius of the click, exactly one player, one of those,   *)
(* is damaged, no node is changed and no yield is granted, even when a     *)
(* node qualifies; otherwise no player is damaged and at most one node,    *)
(* the first qualifying one in registry order, is changed.                 *)
C11_ClickHasOneTarget ==
    last.op = "click" =>
        /\ Cardinality(Damaged) + Cardinality(Struck) <= 1
        /\ Near # {} =>
              /\ Cardinality(Damaged) = 1
              /\ Damaged \subseteq Near
              /\ nodes = before.nodes
              /\ last.res # "kill" => InventoriesKept
        /\ Near = {} =>
              /\ Damaged = {}
              /\ Struck = IF Ripe = {} THEN {}
                                      ELSE {CHOOSE i \in Ripe : \A j \in Ripe : i <= j}

\* a click had two players in its hit radius and a qualifying node, and hit one player
C11_Witness ==
    /\ last.op = "click"
    /\ Cardinality(Near) = 2
    /\ Ripe # {}
    /\ Cardinality(Damaged) = 1
    /\ nodes = before.nodes

(* C12: when several players other than the actor are within the hit       *)
(* radius of a click, the player damaged is the one nearest to the click,  *)
(* and the actor is never damaged by their own click.                      *)
C12_NearestIsHit ==
    last.op = "click" =>
        /\ last.pid \notin Damaged
        /\ \A q \in Damaged : \A r \in Near :
              Dist2(last.x, last.y, before.players[q].x, before.players[q].y)
                  <= Dist2(last.x, last.y, before.players[r].x, before.players[r].y)

\* the velocity of the last input intent, in hundredths of a unit per second
LastVx == Velocity(last.x, Mag(last.x, last.y))
LastVy == Velocity(last.y, Mag(last.x, last.y))

\* the elapsed time in ms the last input intent was resolved with, when it is a number
LastMs == ToNumber(OrElse(last.tgt, DEFAULT_DT))

(* C13: for every combination of the four flags the velocity of an input   *)
(* intent has the magnitude of the player speed, to the hundredth of a     *)
(* unit per second the model resolves, when the flags give a direction,    *)
(* and 0 otherwise; a diagonal move is never faster than an axial one,     *)
(* and the player is displaced by no more than speed times elapsed time.   *)
C13_VelocityHasPlayerSpeed ==
    (last.op = "input" /\ last.res = "moved") =>
        LET m2 == LastVx * LastVx + LastVy * LastVy
            S  == PLAYER_SPEED * 100
            old == before.players[last.pid]
            new == players[last.pid]
            reach == (PLAYER_SPEED * (IF LastMs < 0 THEN -LastMs ELSE LastMs)) \div 1000
        IN  /\ (last.x = 0 /\ last.y = 0) => m2 = 0
            /\ (last.x # 0 \/ last.y # 0) => (S - 1) * (S - 1) <= m2 /\ m2 <= S * S
            /\ (last.x # 0 /\ last.y = 0) => m2 = S * S
            /\ (last.x = 0 /\ last.y # 0) => m2 = S * S
            /\ (IsNum(LastMs) /\ IsNum(old.x) /\ IsNum(old.y)) =>
                   Dist2(old.x, old.y, new.x, new.y) <= reach * reach

\* a diagonal move resolved with the default elapsed time displaced the
\* player by 15 units on each axis, where an axial move displaces by 22
C13_Witness ==
    /\ last.op = "input" /\ last.res = "moved"
    /\ last.x = 1 /\ last.y = 1 /\ last.tgt = DEFAULT_DT
    /\ players[last.pid].x = before.players[last.pid].x + 15
    /\ players[last.pid].y = before.players[last.pid].y + 15

(* C14: an input intent whose elapsed-time value is absent, zero, negative *)
(* or not a number is resolved as if it were 100 ms: the position it       *)
(* leaves is the one the same flags give with dt = 100.                    *)
C14_InvalidDtIsDefault ==
    (/\ last.op = "input" /\ last.res = "moved"
     /\ \/ last.tgt \in {Undefined, NonNumeric, 0}
        \/ IsNum(last.tgt) /\ last.tgt < 0)
    => LET old == before.players[last.pid] IN
       /\ players[last.pid].x = clamp(Add(old.x, Displacement(LastVx, DEFAULT_DT)), 0, WORLD.W)
       /\ players[last.pid].y = clamp(Add(old.y, Displacement(LastVy, DEFAULT_DT)), 0, WORLD.H)

\* the three collections a state message carries
Collections(m) == [players |-> m.players, nodes |-> m.nodes, buildings |-> m.buildings]

(* C15: a snapshot does not change the registry, and two snapshots with    *)
(* no other event between them carry identical players, nodes and          *)
(* buildings.                                                              *)
C15_SnapshotsRepeat ==
    [][last'.op = "snapshot" =>
          /\ Registry' = Registry
          /\ last.op = "snapshot" =>
                Collections(sent'[1].msg) = Collections(sent[1].msg)]_vars

\* a second snapshot in a row, of a registry with two players and a structure
C15_Witness ==
    /\ last.op = "snapshot" /\ last.res = "again"
    /\ Cardinality(DOMAIN players) = 2
    /\ Len(buildings) = 1
    /\ sent[1].msg.buildings = <<[id |-> buildings[1].id,
                                  kind |-> buildings[1].kind, x |-> buildings[1].x,
                                  y |-> buildings[1].y, owner |-> buildings[1].owner]>>

(* C16: a periodic snapshot is one state message that carries every        *)
(* player, every node and every structure of the registry, and it goes to  *)
(* every connection that is open.                                          *)
C16_SnapshotIsComplete ==
    last.op = "snapshot" =>
        /\ Len(sent) = 1
        /\ sent[1].to = {c \in Conns : conn[c].st = "open"}
        /\ LET m == sent[1].msg IN
            /\ m.type = "state"
            /\ DOMAIN m.players = DOMAIN players
            /\ \A q \in DOMAIN players :
                  /\ m.players[q].id = q
                  /\ m.players[q].name = players[q].name
                  /\ m.players[q].x = players[q].x /\ m.players[q].y = players[q].y
                  /\ m.players[q].hp = players[q].hp
                  /\ m.players[q].kills = players[q].kills
                  /\ m.players[q].inv = players[q].inv
            /\ DOMAIN m.nodes = NodeIds
            /\ \A i \in NodeIds :
                  /\ m.nodes[i].id = i
                  /\ m.nodes[i].type = nodes[i].type
                  /\ m.nodes[i].x = nodes[i].x /\ m.nodes[i].y = nodes[i].y
                  /\ m.nodes[i].hp = nodes[i].hp
                  /\ m.nodes[i].maxHp = nodes[i].maxHp
                  /\ m.nodes[i].respawnAt = nodes[i].respawnAt
            /\ DOMAIN m.buildings = DOMAIN buildings
            /\ \A k \in DOMAIN buildings :
                  /\ m.buildings[k].id = buildings[k].id
                  /\ m.buildings[k].kind = buildings[k].kind
                  /\ m.buildings[k].x = buildings[k].x /\ m.buildings[k].y = buildings[k].y
                  /\ m.buildings[k].owner = buildings[k].owner

\* a snapshot of a player, a depleted node and a structure went to two open
\* connections, one of which has not joined
C16_Witness ==
    /\ last.op = "snapshot"
    /\ Cardinality(sent[1].to) = 2
    /\ \E c \in sent[1].to : conn[c].pid = 0
    /\ DOMAIN sent[1].msg.players # {}
    /\ \E i \in NodeIds : sent[1].msg.nodes[i].hp = 0
    /\ Len(sent[1].msg.buildings) = 1

(* C17: when a connection that has joined closes, its player is removed  *)
(* from the registry and exactly one playerLeft notification is broadcast, *)
(* to the connections still open, with the player's id and the name the    *)
(* player had at that moment.                                              *)
C17_CloseRemovesAndNotifies ==
    (last.op = "close" /\ last.pid # 0) =>
        /\ last.pid \in DOMAIN before.players
        /\ players = [q \in DOMAIN before.players \ {last.pid} |-> before.players[q]]
        /\ Len(sent) = 1
        /\ sent[1].msg = [type |-> "playerLeft", id |-> last.pid,
                          name |-> before.players[last.pid].name]
        /\ sent[1].to = {c \in Conns : conn[c].st = "open"}

\* a player who had joined as Bob and renamed to Ann has left, and the other
\* connection was told so
C17_Witness ==
    /\ last.op = "close" /\ last.res = "left"
    /\ sent[1].msg.name = <<"A", "n", "n">>
    /\ sent[1].to # {}
    /\ last.pid \notin DOMAIN players

(* C18: a connection is bound to at most one player over its lifetime: a   *)
(* join is resolved only on a connection that has no player yet, so no     *)
(* message rebinds a connection or creates a second player for it.         *)
C18_BoundOnce ==
    /\ last.op = "join" => last.tgt = 0
    /\ \A c \in Conns : conn[c].pid # 0 => \A d \in Conns \ {c} : conn[d].pid # conn[c].pid

(* C19: a message other than join on a connection that has no player in    *)
(* the registry changes no player, node or structure and sends nothing.    *)
C19_UnboundIntentDropped ==
    last.op = "dropped" =>
        /\ Registry = before
        /\ sent = << >>

\* a chat message was dropped while a player was in the registry and another
\* connection was open
C19_Witness ==
    /\ last.op = "dropped" /\ last.kind = "chat"
    /\ DOMAIN players # {}
    /\ Cardinality({c \in Conns : conn[c].st = "open"}) = 2

\* the last event was a malformed or invalid intent from a joined player
Malformed ==
    \/ last.op = "input" /\ (last.res = "threw" \/ last.tgt = NonNumeric)
    \/ last.op \in {"place", "click", "tapMove"} /\ (~IsNum(last.x) \/ ~IsNum(last.y))
    \/ last.op = "unknown"

(* C20: a malformed or invalid intent from a joined player (an input       *)
(* without keys or with a dt that is not a number, a place, click or       *)
(* tapMove whose coordinates are missing or not numbers, a message of an   *)
(* unknown type) changes no player's position, health or inventory, no     *)
(* node and no structure.                                                  *)
C20_MalformedIntentDropped ==
    Malformed =>
        /\ \A q \in DOMAIN players :
              /\ players[q].x = before.players[q].x /\ players[q].y = before.players[q].y
              /\ players[q].hp = before.players[q].hp
              /\ players[q].inv = before.players[q].inv
        /\ nodes = before.nodes
        /\ buildings = before.buildings

(* ------------------------------------------------------------------ *)
(* C21  identifiers                                                    *)
(* ------------------------------------------------------------------ *)
\* C21: no two players ever created share an identifier (a join creates a player
\* under an identifier the registry did not hold and that no earlier join used),
\* and no two structures share an identifier, those built in the same millisecond
\* included
C21_IdentifiersUnique ==
    /\ \A q \in DOMAIN players : q < nextPlayerId
    /\ last.op = "join" => /\ last.pid \notin DOMAIN before.players
                           /\ last.pid = nextPlayerId - 1
    /\ \A j, k \in 1..Len(buildings) : j # k => buildings[j].id # buildings[k].id

(* ------------------------------------------------------------------ *)
(* C22  structures stay as built                                       *)
(* ------------------------------------------------------------------ *)
\* C22: every event (an intent, a timer, a disconnect that removes the owner)
\* leaves each structure it found in the collection, at its place, with the id,
\* kind, position and owner it had
C22_StructuresKept ==
    /\ Len(buildings) >= Len(before.buildings)
    /\ \A k \in 1..Len(before.buildings) : buildings[k] = before.buildings[k]

\* the owner of a structure has just left, and the structure is still there
C22_Witness ==
    /\ last.op = "close"
    /\ last.res = "left"
    /\ Len(buildings) > 0
    /\ buildings[1].owner = last.pid
    /\ last.pid \notin DOMAIN players

(* ------------------------------------------------------------------ *)
(* C23  join                                                           *)
(* ------------------------------------------------------------------ *)
\* C23: a join adds exactly one player to the registry, placed inside the world
\* with health 100, no kills and an empty inventory, and changes no other
\* player, no node and no structure
C23_JoinCreatesOnePlayer ==
    last.op = "join" =>
        /\ last.pid \notin DOMAIN before.players
        /\ DOMAIN players = DOMAIN before.players \cup {last.pid}
        /\ InWorld(players[last.pid])
        /\ players[last.pid].hp = 100
        /\ players[last.pid].kills = 0
        /\ players[last.pid].inv = [wood |-> 0, stone |-> 0, food |-> 0]
        /\ \A q \in DOMAIN before.players : players[q] = before.players[q]
        /\ nodes = before.nodes
        /\ buildings = before.buildings

\* a player has just joined a world that holds another player, a depleted node
\* and a structure
C23_Witness ==
    /\ last.op = "join"
    /\ before.players # << >>
    /\ Len(before.buildings) > 0
    /\ \E i \in NodeIds : before.nodes[i].hp <= 0

(* ------------------------------------------------------------------ *)
(* C25  health                                                         *)
(* ------------------------------------------------------------------ *)
\* C25: between events every player's health is within 0..100 and above 0
C25_HealthInRange ==
    \A q \in DOMAIN players : players[q].hp > 0 /\ players[q].hp <= 100

\* a lethal hit has just been resolved: the victim stood at one hit's worth of
\* health and is at full health again
C25_Witness ==
    /\ last.op = "click"
    /\ last.res = "kill"
    /\ before.players[last.tgt].hp = HIT_DAMAGE
    /\ players[last.tgt].hp = FULL_HP

(* ------------------------------------------------------------------ *)
(* C24  inventories                                                    *)
(* ------------------------------------------------------------------ *)
\* C24: in every state every player's inventory holds a whole number, zero or
\* more, of wood, of stone and of food
C24_InventoryNonNegative ==
    \A q \in DOMAIN players :
        /\ DOMAIN players[q].inv = {"wood", "stone", "food"}
        /\ \A k \in DOMAIN players[q].inv : players[q].inv[k] \in Nat

\* a player who holds less wood than the drop cap has just been killed, after a
\* structure was built
C24_Witness ==
    /\ last.op = "click"
    /\ last.res = "kill"
    /\ before.players[last.tgt].inv.wood \in 1..(DROP_CAP - 1)
    /\ players[last.tgt].inv.wood = 0
    /\ Len(buildings) > 0

(* ------------------------------------------------------------------ *)
(* C27  chat                                                           *)
(* ------------------------------------------------------------------ *)
\* C27: a chat intent of a joined player is answered by one chat message,
\* broadcast to the open connections, whose text holds no '<' and no '>' and at
\* most 200 characters, and whose fromName is the name the sender has when the
\* intent is resolved
C27_ChatEscapedCutAndNamed ==
    last.op = "chat" =>
        /\ Len(sent) = 1
        /\ sent[1].to = OpenClients(conn)
        /\ sent[1].msg.type = "chat"
        /\ sent[1].msg.fromName = players[last.pid].name
        /\ sent[1].msg.fromName = before.players[last.pid].name
        /\ Len(sent[1].msg.text) <= 200
        /\ \A i \in 1..Len(sent[1].msg.text) : sent[1].msg.text[i] \notin {"<", ">"}

\* a player who renamed itself has chatted a text longer than 200 characters
\* with a '<' in it
C27_Witness ==
    /\ last.op = "chat"
    /\ Len(last.text) > 200
    /\ \E i \in 1..Len(last.text) : last.text[i] = "<"
    /\ Len(sent[1].msg.text) = 200
    /\ sent[1].msg.fromName = <<"A", "n", "n">>

(* ------------------------------------------------------------------ *)
(* C28  setName                                                        *)
(* ------------------------------------------------------------------ *)
\* the first n characters of a string
FirstChars(s, n) == [i \in 1..(IF Len(s) < n THEN Len(s) ELSE n) |-> s[i]]

\* C28: after a setName intent the player's name is the first 16 characters of
\* the name asked for, or of the name it had when none was asked for, and no
\* other player's name has changed (a name held by another player is accepted)
C28_SetNameTruncates ==
    last.op = "setName" =>
        /\ players[last.pid].name =
              FirstChars(IF last.text = << >> THEN before.players[last.pid].name ELSE last.text, 16)
        /\ \A q \in DOMAIN players \ {last.pid} : players[q].name = before.players[q].name

\* a player with a name longer than 16 characters has sent a setName without a
\* name, and now holds the 16-character name another player holds
C28_Witness ==
    /\ last.op = "setName"
    /\ last.text = << >>
    /\ Len(before.players[last.pid].name) > 16
    /\ Len(players[last.pid].name) = 16
    /\ \E q \in DOMAIN players \ {last.pid} : players[q].name = players[last.pid].name

(* ------------------------------------------------------------------ *)
(* C29  tapMove                                                        *)
(* ------------------------------------------------------------------ *)
\* C29: a tapMove of an actor at a numeric position puts it on the target when
\* the target is within 40 units (so it stays where it is when it is already
\* there), and otherwise 40 units from where it was, on the straight line
\* toward the target; no other player moves
C29_TapMoveCappedStep ==
    (last.op = "tapMove" /\ IsNum(before.players[last.pid].x) /\ IsNum(before.players[last.pid].y)) =>
        LET ox == before.players[last.pid].x
            oy == before.players[last.pid].y
            nx == players[last.pid].x
            ny == players[last.pid].y
            tx == last.x
            ty == last.y
            d2 == (tx - ox) * (tx - ox) + (ty - oy) * (ty - oy)
        IN  /\ d2 <= 40 * 40 => nx = tx /\ ny = ty
            /\ d2 = 0 => nx = ox /\ ny = oy
            /\ d2 > 40 * 40 =>
                 /\ (nx - ox) * (nx - ox) + (ny - oy) * (ny - oy) = 40 * 40
                 /\ (nx - ox) * (ty - oy) = (ny - oy) * (tx - ox)
                 /\ (nx - ox) * (tx - ox) + (ny - oy) * (ty - oy) > 0
            /\ \A q \in DOMAIN players \ {last.pid} :
                    players[q].x = before.players[q].x /\ players[q].y = before.players[q].y

\* an actor has just taken a step of 40 toward a target 100 away
C29_Witness ==
    /\ last.op = "tapMove"
    /\ last.res = "moved"
    /\ IsNum(before.players[last.pid].x)
    /\ last.x = before.players[last.pid].x + 60
    /\ last.y = before.players[last.pid].y + 80
    /\ players[last.pid].x = before.players[last.pid].x + 24
    /\ players[last.pid].y = before.players[last.pid].y + 32

(* ------------------------------------------------------------------ *)
(* C30  respawn pass                                                   *)
(* ------------------------------------------------------------------ *)
\* the absolute value of a difference
AbsDiff(a, b) == IF a < b THEN b - a ELSE a - b

\* C30: a respawn pass gives every node that was depleted with a respawn
\* timestamp <= now its maxHp as hp, a cleared timestamp and a position at most
\* 40 from the old one on each axis and inside the world; it changes no other
\* node, no player and no structure
C30_RespawnPassExact ==
    last.op = "respawn" =>
        /\ \A i \in NodeIds :
             LET b == before.nodes[i]
                 n == nodes[i]
             IN  IF b.hp <= 0 /\ b.respawnAt <= now
                   THEN /\ n.hp = b.maxHp
                        /\ n.respawnAt = 0
                        /\ AbsDiff(n.x, b.x) <= 40 /\ AbsDiff(n.y, b.y) <= 40
                        /\ 0 <= n.x /\ n.x <= WORLD.W /\ 0 <= n.y /\ n.y <= WORLD.H
                        /\ n.type = b.type /\ n.maxHp = b.maxHp
                   ELSE n = b
        /\ players = before.players
        /\ buildings = before.buildings

\* a pass has just respawned a due node, moved by the jitter, and left a
\* depleted node that is not yet due as it was
C30_Witness ==
    /\ last.op = "respawn"
    /\ \E i, j \in NodeIds :
         /\ before.nodes[i].hp <= 0 /\ before.nodes[i].respawnAt <= now
         /\ nodes[i].hp = nodes[i].maxHp
         /\ nodes[i].x = before.nodes[i].x - 40
         /\ before.nodes[j].hp <= 0 /\ before.nodes[j].respawnAt > now
         /\ nodes[j] = before.nodes[j]

(* ------------------------------------------------------------------ *)
(* C26  inactivity timeout                                             *)
(* ------------------------------------------------------------------ *)
\* C26: the periodic tick removes every player whose last-active timestamp is
\* more than 10 minutes in the past, and broadcasts for each a playerLeft that
\* carries the player's id and the display name it had
C26_InactiveRemovedAndAnnounced ==
    last.op = "cleanup" =>
        \A q \in DOMAIN before.players :
            now - before.players[q].lastActive > 10 * 60 * 1000 =>
                /\ q \notin DOMAIN players
                /\ \E k \in 1..Len(sent) :
                     /\ sent[k].msg.type = "playerLeft"
                     /\ sent[k].msg.id = q
                     /\ sent[k].msg.name = before.players[q].name

(* ------------------------------------------------------------------ *)
(* C34  disconnect in the variant                                      *)
(* ------------------------------------------------------------------ *)
\* C34: in the variant, when a connection that has joined closes, the player
\* that connection created leaves the registry and a playerLeft with its id is
\* broadcast
C34_VariantCloseRemoves ==
    (last.op = "close" /\ last.tgt # 0 /\ last.tgt \in DOMAIN before.players) =>
        /\ last.tgt \notin DOMAIN players
        /\ \E k \in 1..Len(sent) :
             sent[k].msg.type = "playerLeft" /\ sent[k].msg.id = last.tgt

(* ------------------------------------------------------------------ *)
(* C36  node health                                                    *)
(* ------------------------------------------------------------------ *)
\* C36: in every state, the seeded world included, every node has
\* 0 <= hp <= maxHp
C36_NodeHpWithinMax ==
    \A i \in NodeIds : 0 <= nodes[i].hp /\ nodes[i].hp <= nodes[i].maxHp

(* ------------------------------------------------------------------ *)
(* C37  players and connections                                        *)
(* ------------------------------------------------------------------ *)
\* the open connections bound to player q
BoundTo(q) == {c \in Conns : conn[c].st = "open" /\ conn[c].pid = q}

\* C37: in every state every player of the registry is the bound player of
\* exactly one open connection, so there are no more players than open
\* connections, and none once every connection has closed
C37_PlayerPerOpenConnection ==
    /\ \A q \in DOMAIN players : Cardinality(BoundTo(q)) = 1
    /\ Cardinality(DOMAIN players) <= Cardinality({c \in Conns : conn[c].st = "open"})
    /\ (\A c \in Conns : conn[c].st = "closed") => DOMAIN players = {}

(* ------------------------------------------------------------------ *)
(* C33  welcome                                                        *)
(* ------------------------------------------------------------------ *)
\* the snapshot s shows every player, node and structure of the registry, field
\* for field
ShowsRegistry(s) ==
    /\ DOMAIN s.players = DOMAIN players
    /\ \A q \in DOMAIN players :
          /\ s.players[q].id = q
          /\ s.players[q].name = players[q].name
          /\ s.players[q].x = players[q].x /\ s.players[q].y = players[q].y
          /\ s.players[q].hp = players[q].hp
          /\ s.players[q].kills = players[q].kills
          /\ s.players[q].inv = players[q].inv
    /\ DOMAIN s.nodes = NodeIds
    /\ \A i \in NodeIds :
          /\ s.nodes[i].id = i
          /\ s.nodes[i].type = nodes[i].type
          /\ s.nodes[i].x = nodes[i].x /\ s.nodes[i].y = nodes[i].y
          /\ s.nodes[i].hp = nodes[i].hp
          /\ s.nodes[i].maxHp = nodes[i].maxHp
          /\ s.nodes[i].respawnAt = nodes[i].respawnAt
    /\ DOMAIN s.buildings = DOMAIN buildings
    /\ \A k \in DOMAIN buildings :
          /\ s.buildings[k].id = buildings[k].id
          /\ s.buildings[k].kind = buildings[k].kind
          /\ s.buildings[k].x = buildings[k].x /\ s.buildings[k].y = buildings[k].y
          /\ s.buildings[k].owner = buildings[k].owner

\* C33: the first message a join sends is a welcome to the joining connection
\* with the id of the player just created, and the snapshot in it holds that
\* player under that id, next to every other player, node and structure
C33_WelcomeHoldsNewPlayer ==
    last.op = "join" =>
        /\ Len(sent) >= 1
        /\ sent[1].msg.type = "welcome"
        /\ sent[1].to = {c \in Conns : conn[c].st = "open" /\ conn[c].pid = last.pid}
        /\ Cardinality(sent[1].to) = 1
        /\ sent[1].msg.id = last.pid
        /\ last.pid \notin DOMAIN before.players
        /\ last.pid \in DOMAIN sent[1].msg.state.players
        /\ sent[1].msg.state.players[last.pid].id = last.pid
        /\ ShowsRegistry(sent[1].msg.state)

\* a welcome has just been sent whose snapshot holds the new player, another
\* player, a depleted node and a structure
C33_Witness ==
    /\ last.op = "join"
    /\ sent[1].msg.type = "welcome"
    /\ Cardinality(DOMAIN sent[1].msg.state.players) = 2
    /\ last.pid \in DOMAIN sent[1].msg.state.players
    /\ \E i \in NodeIds : sent[1].msg.state.nodes[i].hp = 0
    /\ Len(sent[1].msg.state.buildings) = 1

(* ------------------------------------------------------------------ *)
(* C32  snapshots show no half-resolved intent                         *)
(* ------------------------------------------------------------------ *)
\* the sum of f over the finite set S
RECURSIVE SumOver(_, _)
SumOver(f, S) ==
    IF S = {} THEN 0 ELSE LET e == CHOOSE x \in S : TRUE IN f[e] + SumOver(f, S \ {e})

\* in the snapshot m, what the players hold of resource k and what the
\* structures cost of it, together
HeldAndBuilt(m, k) ==
    SumOver([q \in DOMAIN m.players |-> m.players[q].inv[k]], DOMAIN m.players)
    + SumOver([b \in DOMAIN m.buildings |-> CostTable(m.buildings[b].kind)[k]], DOMAIN m.buildings)

\* in the snapshot m, what the depleted nodes have yielded of resource k
Yielded(m, k) ==
    SumOver([i \in DOMAIN m.nodes |-> IF m.nodes[i].hp <= 0 THEN YieldTable(m.nodes[i].type)[k] ELSE 0],
            DOMAIN m.nodes)

C40_PredictionMatchesServer ==
    (last.op = "input" /\ last.res = "moved" /\ last.tgt = 100) =>
        \A keys \in SUBSET Directions :
            (AxisX(keys) = last.x /\ AxisY(keys) = last.y) =>
                applyLocalPrediction(before.players[last.pid], keys, 100)
                    = <<players[last.pid].x, players[last.pid].y>>

\* a diagonal input with dt = 100 has just been resolved at the edge of the
\* world: 15 units along x, and y held at 0 by the clamp
C40_Witness ==
    /\ last.op = "input" /\ last.res = "moved" /\ last.tgt = 100
    /\ last.x = 1 /\ last.y = -1
    /\ before.players[last.pid].y = 0
    /\ players[last.pid].x = before.players[last.pid].x + 15
    /\ players[last.pid].y = 0

(* ------------------------------------------------------------------ *)
(* C35  an intent touches its sender only                              *)
(* ------------------------------------------------------------------ *)
\* C35: an input, tapMove, chat, setName, place or ping intent leaves every
\* other player's position, health, kills, inventory and name, and every node,
\* as they were
C35_IntentsTouchSenderOnly ==
    last.op \in {"input", "tapMove", "chat", "setName", "place", "unknown"} =>
        /\ DOMAIN players = DOMAIN before.players
        /\ \A q \in DOMAIN players \ {last.pid} :
              /\ players[q].x = before.players[q].x /\ players[q].y = before.players[q].y
              /\ players[q].hp = before.players[q].hp
              /\ players[q].kills = before.players[q].kills
              /\ players[q].inv = before.players[q].inv
              /\ players[q].name = before.players[q].name
        /\ nodes = before.nodes

\* a player has just built a structure next to another player
C35_Witness ==
    /\ last.op = "place"
    /\ last.res = "built"
    /\ Cardinality(DOMAIN players) = 2
    /\ \E q \in DOMAIN players \ {last.pid} : players[q] = before.players[q]

(* ------------------------------------------------------------------ *)
(* C38  markup in chat messages                                        *)
(* ------------------------------------------------------------------ *)
\* the string s holds no '<' and no '>'
NoMarkup(s) == \A i \in 1..Len(s) : s[i] \notin {"<", ">"}

\* C38: no chat message the server sends, the System notice of a join or a
\* player's chat, holds a '<' or a '>' in its fromName or in its text
C38_ChatMessagesEscaped ==
    \A k \in 1..Len(sent) :
        sent[k].msg.type = "chat" =>
            NoMarkup(sent[k].msg.fromName) /\ NoMarkup(sent[k].msg.text)

(* ------------------------------------------------------------------ *)
(* C31  nodes come back                                                *)
(* ------------------------------------------------------------------ *)
\* C31: while the clock advances and the respawn timer keeps firing, every
\* depleted node becomes live again (hp > 0)
C31_DepletedEventuallyLive ==
    \A i \in NodeIds : (nodes[i].hp <= 0) ~> (nodes[i].hp > 0)

\* a node that was depleted, respawned and depleted again has just respawned a
\* second time
C31_Witness ==
    /\ last.op = "respawn"
    /\ now = StartMs + 2 * RESPAWN_MS
    /\ \E i \in NodeIds :
         /\ before.nodes[i].hp <= 0
         /\ nodes[i].hp > 0
         /\ nodes[i].x = NodeSeedPos(i)[1] - 80

(***************************************************************************)
(* The revised client (script.js init): its sockets and its reconnecting.  *)
(***************************************************************************)

ServerIdle ==
    UNCHANGED <<players, nodes, buildings, nextPlayerId, conn, now, nMoves, last, before, sent>>

\* the readyStates a socket is alive in
LiveStates == {"connecting", "open"}

\* a socket's "open" event: the listener sends the join on `ws`, whichever
\* socket that is by now; send throws on a CONNECTING socket and is dropped by
\* a closing or closed one
SocketOpen(s) ==
    /\ client.socks[s] = "connecting"
    /\ LET opened == [client EXCEPT !.socks[s] = "open"]
       IN  client' = IF opened.ws # 0 /\ opened.socks[opened.ws] = "open"
                     THEN [opened EXCEPT !.joins[opened.ws] = @ + 1]
                     ELSE opened
    /\ ServerIdle

\* a socket goes down: it starts closing, or it is closed, and then its "close"
\* listener schedules connect two seconds on
SocketClose(s) ==
    /\ \/ /\ client.socks[s] \in LiveStates
          /\ client' = [client EXCEPT !.socks[s] = "closing"]
       \/ /\ client.socks[s] # "closed"
          /\ client' = [client EXCEPT !.socks[s] = "closed", !.timers = @ + 1]
    /\ ServerIdle

\* a pending setTimeout(connect, 2000) fires
Reconnect ==
    /\ client.timers > 0
    /\ Len(client.socks) < MaxSockets
    /\ client' = [connect(client) EXCEPT !.timers = @ - 1]
    /\ ServerIdle

\* the five-second interval: connect anew when `ws` is null or CLOSED, nothing
\* while it is CLOSING, a ping otherwise (one that throws on a CONNECTING socket
\* is caught)
Keepalive ==
    /\ IF client.ws = 0 \/ client.socks[client.ws] \in {"closing", "closed"}
       THEN IF client.ws = 0 \/ client.socks[client.ws] = "closed"
            THEN Len(client.socks) < MaxSockets /\ client' = connect(client)
            ELSE client' = client
       ELSE client' = client
    /\ ServerIdle

NextClient ==
    \/ \E s \in 1..Len(client.socks) : SocketOpen(s)
    \/ \E s \in 1..Len(client.socks) : SocketClose(s)
    \/ Reconnect
    \/ Keepalive

SpecClient == Init /\ [][NextClient]_vars

\* C39: after any closes, reconnect timeouts and keepalive ticks the client has
\* at most one socket that is connecting or open, and has sent at most one join
\* on a socket
C39_OneLiveConnection ==
    /\ Cardinality({s \in 1..Len(client.socks) : client.socks[s] \in LiveStates}) <= 1
    /\ \A s \in 1..Len(client.socks) : client.joins[s] <= 1

====
